---- MODULE Spec2Model ----
(***************************************************************************)
(* MRP engine of src/src/pages/mrp/MrpDataPage.tsx.                        *)
(*                                                                         *)
(* Text is a sequence of one-character strings, so that trim, toLowerCase, *)
(* includes, the period pattern and Number() are computed, not assumed.    *)
(* A worksheet cell is a record: a number cell, a string cell, or the      *)
(* undefined value read past the end of a row (or at index -1).            *)
(* Column indexes are the 0-based JavaScript indexes, -1 for "not found".  *)
(* Quantities are integers (fractions and float rounding are not           *)
(* modelled).                                                              *)
(***************************************************************************)
EXTENDS Integers, Sequences, FiniteSets, TLC

VARIABLES
    mmInfo,           \* material-master entry of the material being walked
    demandByWeek,     \* its demand periods, in Map insertion order
    visited,          \* number of periods the forEach has processed
    excessQty,        \* (instock || 0) + (pendingPo || 0)
    remainingExcess,  \* running excess of the walk
    excessTrace,      \* history: remainingExcess before the walk and after each period
    adjustedTrace,    \* history: adjustedDemand of each visited period
    weeklyDemand,     \* the row's per-period maps, as sequences of [week, v]
    weeklyMrpQty,
    weeklyPoDate,
    totalDemand,
    selectedWeeks,    \* the periods of the window
    sdInfo,           \* supplier entry of the material being walked
    weekPlan,         \* the week-plan document handed to calculatePoDate
    inputs,           \* the documents handed to calculateMrpDataInternal
    selectedYear,     \* the period window (component state)
    startWeek,
    endWeek,
    mrpCalculatedData,   \* published result: null or the MrpRow list
    weekColumns,         \* published selectedWeeks
    allWeekColumns,      \* published allWeeks
    productionDemandMap, \* history: the demand map of the last computation
    alert,               \* title of the last Swal.fire, "" before any
    startWeekText,       \* the text of the start-week input
    endWeekText,         \* the text of the end-week input
    isLoading,
    pending,             \* the Calculate MRP runs awaiting their loads, each
                         \* with the window its closure captured
    started,             \* history: number of runs started (fetchAllData calls)
    finished,            \* history: what the last run to finish loaded and did
    requests,            \* history: number of Calculate MRP requests (Enter, click)
    loads,               \* the five document loads of a run followed step by
                         \* step: where each fetchDataSource stands, its
                         \* loadingStatus and what it returned
    call,                \* the arguments of a function applied on its own
    result               \* and what it returned

walkVars == <<mmInfo, demandByWeek, visited, excessQty, remainingExcess,
              excessTrace, adjustedTrace, weeklyDemand, weeklyMrpQty,
              weeklyPoDate, totalDemand, selectedWeeks, sdInfo, weekPlan>>

engineVars == <<inputs, selectedYear, startWeek, endWeek, mrpCalculatedData,
                weekColumns, allWeekColumns, productionDemandMap, alert>>

pageVars == <<startWeekText, endWeekText, isLoading, pending, started, finished,
              requests, loads>>

callVars == <<call, result>>

vars == <<walkVars, engineVars, pageVars, callVars>>

----------------------------------------------------------------------------
(* Bounds of the model *)

MaxPeriods == 3

----------------------------------------------------------------------------
(* Text *)

UpperChars == <<"A","B","C","D","E","F","G","H","I","J","K","L","M",
                "N","O","P","Q","R","S","T","U","V","W","X","Y","Z">>
LowerChars == <<"a","b","c","d","e","f","g","h","i","j","k","l","m",
                "n","o","p","q","r","s","t","u","v","w","x","y","z">>
DigitChars == <<"0","1","2","3","4","5","6","7","8","9">>

IsSpace(c) == c \in {" ", "\t", "\n"}
IsDigit(c) == \E i \in 1..10 : DigitChars[i] = c
DigitVal(c) == (CHOOSE i \in 1..10 : DigitChars[i] = c) - 1

RECURSIVE TrimStart(_)
TrimStart(s) ==
    IF s # <<>> /\ IsSpace(Head(s)) THEN TrimStart(Tail(s)) ELSE s

RECURSIVE TrimEnd(_)
TrimEnd(s) ==
    IF s # <<>> /\ IsSpace(s[Len(s)]) THEN TrimEnd(SubSeq(s, 1, Len(s) - 1)) ELSE s

\* String.prototype.trim
Trim(s) == TrimEnd(TrimStart(s))

toLowerChar(c) ==
    IF \E i \in 1..26 : UpperChars[i] = c
    THEN LowerChars[CHOOSE i \in 1..26 : UpperChars[i] = c]
    ELSE c

\* String.prototype.toLowerCase
toLowerCase(s) == [i \in 1..Len(s) |-> toLowerChar(s[i])]

\* String.prototype.includes
Includes(s, q) ==
    \E i \in 1..(Len(s) - Len(q) + 1) : SubSeq(s, i, i + Len(q) - 1) = q

RECURSIVE DigitsValue(_)
DigitsValue(s) ==
    IF s = <<>> THEN 0
    ELSE 10 * DigitsValue(SubSeq(s, 1, Len(s) - 1)) + DigitVal(s[Len(s)])

AllDigits(s) == s # <<>> /\ \A i \in 1..Len(s) : IsDigit(s[i])

RECURSIVE NatText(_)
NatText(n) ==
    IF n < 10 THEN <<DigitChars[n + 1]>>
    ELSE NatText(n \div 10) \o <<DigitChars[(n % 10) + 1]>>

\* decimal text of an integer, as String(n) gives it
IntText(n) == IF n < 0 THEN <<"-">> \o NatText(-n) ELSE NatText(n)

\* Number(text): [finite, n]; the empty (or all-blank) text is 0, an optional
\* sign and digits is that integer, anything else is NaN
NumberOfText(s) ==
    LET t == Trim(s) IN
    IF t = <<>> THEN [finite |-> TRUE, n |-> 0]
    ELSE IF AllDigits(t) THEN [finite |-> TRUE, n |-> DigitsValue(t)]
    ELSE IF Head(t) = "-" /\ AllDigits(Tail(t))
         THEN [finite |-> TRUE, n |-> 0 - DigitsValue(Tail(t))]
    ELSE IF Head(t) = "+" /\ AllDigits(Tail(t))
         THEN [finite |-> TRUE, n |-> DigitsValue(Tail(t))]
    ELSE [finite |-> FALSE, n |-> 0]

----------------------------------------------------------------------------
(* Cells *)

Num(n) == [t |-> "num", n |-> n, s |-> <<>>]
Str(s) == [t |-> "str", n |-> 0, s |-> s]
Undefined == [t |-> "undef", n |-> 0, s |-> <<>>]

\* row[idx] with a 0-based index: undefined outside the row
CellAt(row, idx) ==
    IF idx >= 0 /\ idx < Len(row) THEN row[idx + 1] ELSE Undefined

\* String(v ?? '')
StringOf(v) ==
    IF v.t = "num" THEN IntText(v.n)
    ELSE IF v.t = "str" THEN v.s
    ELSE <<>>

toNumber(v) ==
    IF v.t = "num" THEN v.n
    ELSE LET n == NumberOfText(Trim(StringOf(v))) IN
         IF n.finite THEN n.n ELSE 0

\* Array.prototype.findIndex, given the (1-based) positions of the elements
\* that satisfy the predicate: the 0-based index of the first, -1 when none
FindIndex(hits) ==
    IF hits = {} THEN -1
    ELSE (CHOOSE i \in hits : \A j \in hits : i <= j) - 1

\* (h) => String(h ?? '').toLowerCase().includes(q)
RawHeaderHas(h, q) == Includes(toLowerCase(StringOf(h)), q)

----------------------------------------------------------------------------
(* Map: a JavaScript Map as the sequence of its [k, v] entries in insertion
   order; set() on a present key keeps the entry's place *)

MapHas(m, k) == \E i \in 1..Len(m) : m[i].k = k
MapIndex(m, k) == CHOOSE i \in 1..Len(m) : m[i].k = k
MapGet(m, k, default) == IF MapHas(m, k) THEN m[MapIndex(m, k)].v ELSE default
MapSet(m, k, v) ==
    IF MapHas(m, k)
    THEN [m EXCEPT ![MapIndex(m, k)] = [k |-> k, v |-> v]]
    ELSE Append(m, [k |-> k, v |-> v])
MapKeys(m) == [i \in 1..Len(m) |-> m[i].k]

SeqHas(s, x) == \E i \in 1..Len(s) : s[i] = x

----------------------------------------------------------------------------
(* Material master lookup *)

MmDefault == [mpq |-> 0, moq |-> 0, reorder |-> 0, instock |-> 0, pendingPo |-> 0]

MmIsInstock(h) ==
    RawHeaderHas(h, <<"i","n","s","t","o","c","k">>)
    \/ RawHeaderHas(h, <<"i","n"," ","s","t","o","c","k">>)
MmIsPendingPo(h) ==
    RawHeaderHas(h, <<"p","e","n","d","i","n","g"," ","p","o">>)
    \/ RawHeaderHas(h, <<"p","e","n","d","i","n","g","_","p","o">>)
MmIsMpq(h) == RawHeaderHas(h, <<"m","p","q">>)
MmIsMoq(h) == RawHeaderHas(h, <<"m","o","q">>)
MmIsReorder(h) == RawHeaderHas(h, <<"r","e","o","r","d","e","r">>)

MmEntryOfRow(headers, row) ==
    [mpq       |-> toNumber(CellAt(row, FindIndex({i \in 1..Len(headers) : MmIsMpq(headers[i])}))),
     moq       |-> toNumber(CellAt(row, FindIndex({i \in 1..Len(headers) : MmIsMoq(headers[i])}))),
     reorder   |-> toNumber(CellAt(row, FindIndex({i \in 1..Len(headers) : MmIsReorder(headers[i])}))),
     instock   |-> toNumber(CellAt(row, FindIndex({i \in 1..Len(headers) : MmIsInstock(headers[i])}))),
     pendingPo |-> toNumber(CellAt(row, FindIndex({i \in 1..Len(headers) : MmIsPendingPo(headers[i])})))]

RECURSIVE MmFold(_, _, _)
MmFold(headers, rows, map) ==
    IF rows = <<>> THEN map
    ELSE LET row == Head(rows)
             material == Trim(StringOf(CellAt(row, 0)))
         IN MmFold(headers, Tail(rows),
                   IF material = <<>> THEN map
                   ELSE MapSet(map, material, MmEntryOfRow(headers, row)))

buildMaterialMasterMap(headers, rows) == MmFold(headers, rows, <<>>)

----------------------------------------------------------------------------
(* Netting and lot sizing of one period *)

\* mutant: Math.floor in place of Math.ceil
CeilDivAsFloor(a, m) == a \div m

\* Math.ceil(a / m) for m > 0
CeilDiv(a, m) == IF a >= 0 THEN (a + m - 1) \div m ELSE 0 - ((0 - a) \div m)

\* mutant: the MPQ rounding is tried before the MOQ floor
LotSizeMpqBeforeMoq(mm, adjustedDemand) ==
    IF mm.reorder > 0 THEN mm.reorder + adjustedDemand
    ELSE IF mm.mpq > 0 THEN CeilDiv(adjustedDemand, mm.mpq) * mm.mpq
    ELSE IF mm.moq > adjustedDemand THEN mm.moq
    ELSE adjustedDemand

\* mutant: the MOQ floor is tried before the reorder point
LotSizeMoqBeforeReorder(mm, adjustedDemand) ==
    IF mm.moq > adjustedDemand THEN mm.moq
    ELSE IF mm.reorder > 0 THEN mm.reorder + adjustedDemand
    ELSE IF mm.mpq > 0 THEN CeilDiv(adjustedDemand, mm.mpq) * mm.mpq
    ELSE adjustedDemand

LotSize(mm, adjustedDemand) ==
    IF mm.reorder > 0 THEN mm.reorder + adjustedDemand
    ELSE IF mm.moq > adjustedDemand THEN mm.moq
    ELSE IF mm.mpq > 0 THEN CeilDiv(adjustedDemand, mm.mpq) * mm.mpq
    ELSE adjustedDemand

NetExcess(rem, qty) ==
    IF rem > 0
    THEN IF rem >= qty
         THEN [adjustedDemand |-> 0, remainingExcess |-> rem - qty]
         ELSE [adjustedDemand |-> qty - rem, remainingExcess |-> 0]
    ELSE [adjustedDemand |-> qty, remainingExcess |-> rem]

\* the body of demandByWeek.forEach, up to requiredQty
PeriodStep(mm, rem, qty) ==
    IF qty > 0
    THEN LET net == NetExcess(rem, qty) IN
         [adjustedDemand  |-> net.adjustedDemand,
          remainingExcess |-> net.remainingExcess,
          requiredQty     |-> IF net.adjustedDemand > 0
                              THEN LotSize(mm, net.adjustedDemand) ELSE 0]
    ELSE [adjustedDemand |-> 0, remainingExcess |-> rem, requiredQty |-> 0]

ExcessOf(mm) == mm.instock + mm.pendingPo

----------------------------------------------------------------------------
(* Documents *)

NullDoc == [isNull |-> TRUE, sheetName |-> <<>>, jsonData |-> <<>>]
Doc(name, grid) == [isNull |-> FALSE, sheetName |-> name, jsonData |-> grid]

\* doc?.jsonData?.length
HasData(doc) == ~doc.isNull /\ Len(doc.jsonData) > 0

----------------------------------------------------------------------------
(* Calendar: a Date at local midnight is its day number, 0 = 1 Jan 1970 *)

MonthNames == << <<"J","a","n">>, <<"F","e","b">>, <<"M","a","r">>, <<"A","p","r">>,
                 <<"M","a","y">>, <<"J","u","n">>, <<"J","u","l">>, <<"A","u","g">>,
                 <<"S","e","p">>, <<"O","c","t">>, <<"N","o","v">>, <<"D","e","c">> >>

DaysFromCivil(y0, m, d) ==
    LET y   == IF m <= 2 THEN y0 - 1 ELSE y0
        era == y \div 400
        yoe == y - era * 400
        doy == (153 * (IF m > 2 THEN m - 3 ELSE m + 9) + 2) \div 5 + d - 1
        doe == yoe * 365 + yoe \div 4 - yoe \div 100 + doy
    IN era * 146097 + doe - 719468

CivilFromDays(z0) ==
    LET z   == z0 + 719468
        era == z \div 146097
        doe == z - era * 146097
        yoe == (doe - doe \div 1460 + doe \div 36524 - doe \div 146096) \div 365
        doy == doe - (365 * yoe + yoe \div 4 - yoe \div 100)
        mp  == (5 * doy + 2) \div 153
        d   == doy - (153 * mp + 2) \div 5 + 1
        m   == IF mp < 10 THEN mp + 3 ELSE mp - 9
    IN [year |-> yoe + era * 400 + (IF m <= 2 THEN 1 ELSE 0), month |-> m, day |-> d]

\* new Date(year, 0, 1): a year of 0..99 means 1900 + year
YearStart(year) == DaysFromCivil(IF year >= 0 /\ year <= 99 THEN 1900 + year ELSE year, 1, 1)

\* new Date(1899, 11, 30)
ExcelEpoch == DaysFromCivil(1899, 12, 30)

\* String(n).padStart(2, '0')
PadStart2(t) == IF Len(t) < 2 THEN <<"0">> \o t ELSE t

\* s.slice(-2)
SliceLast2(t) == IF Len(t) <= 2 THEN t ELSE SubSeq(t, Len(t) - 1, Len(t))

formatPoDate(d) ==
    LET c == CivilFromDays(d) IN
    PadStart2(IntText(c.day)) \o <<"-">> \o MonthNames[c.month] \o <<"-">>
        \o SliceLast2(IntText(c.year))

\* new Date(text) for the texts modelled: YYYY-MM-DD is that day (the local
\* time zone is taken to be UTC), any other text is an invalid date
ParseDateText(t) ==
    IF Len(t) = 10 /\ t[5] = "-" /\ t[8] = "-"
       /\ AllDigits(SubSeq(t, 1, 4)) /\ AllDigits(SubSeq(t, 6, 7)) /\ AllDigits(SubSeq(t, 9, 10))
       /\ DigitsValue(SubSeq(t, 6, 7)) \in 1..12 /\ DigitsValue(SubSeq(t, 9, 10)) \in 1..28
    THEN [valid |-> TRUE,
          day |-> DaysFromCivil(DigitsValue(SubSeq(t, 1, 4)), DigitsValue(SubSeq(t, 6, 7)),
                                DigitsValue(SubSeq(t, 9, 10)))]
    ELSE [valid |-> FALSE, day |-> 0]

\* weekStr.split('.')
SplitDot(t) ==
    IF \E i \in 1..Len(t) : t[i] = "."
    THEN LET i == CHOOSE i \in 1..Len(t) : t[i] = "." /\ \A j \in 1..(i - 1) : t[j] # "."
         IN <<SubSeq(t, 1, i - 1), SubSeq(t, i + 1, Len(t))>>
    ELSE <<t>>

NoDate == [valid |-> FALSE, day |-> 0]

WpIsWeek(h) == RawHeaderHas(h, <<"w","e","e","k">>)
WpIsStartDate(h) == RawHeaderHas(h, <<"s","t","a","r","t"," ","d","a","t","e">>)

\* the week-plan branch of calculatePoDate: the start date of the first row
\* whose week cell is (strictly) the period string
WeekPlanDate(weekStr, wp) ==
    IF ~HasData(wp) THEN NoDate
    ELSE LET headers == wp.jsonData[1]
             rows == Tail(wp.jsonData)
             weekNoIdx == FindIndex({i \in 1..Len(headers) : WpIsWeek(headers[i])})
             startDateIdx == FindIndex({i \in 1..Len(headers) : WpIsStartDate(headers[i])})
             hit(r) == CellAt(r, weekNoIdx) = Str(weekStr)
         IN IF ~\E i \in 1..Len(rows) : hit(rows[i]) THEN NoDate
            ELSE LET weekRow == rows[CHOOSE i \in 1..Len(rows) :
                                       hit(rows[i]) /\ \A j \in 1..(i - 1) : ~hit(rows[j])]
                     cell == CellAt(weekRow, startDateIdx)
                 IN IF cell.t = "undef" \/ cell = Str(<<>>) THEN NoDate
                    ELSE IF cell.t = "num" THEN [valid |-> TRUE, day |-> ExcelEpoch + cell.n]
                    ELSE ParseDateText(cell.s)

\* mutant: the first day of the week, not the day after its last
FallbackDateFromWeekStart(weekStr) ==
    LET parts == SplitDot(weekStr) IN
    YearStart(toNumber(Str(parts[2]))) + (toNumber(Str(parts[1])) - 1) * 7

\* January 1 of the period's year plus weekNum * 7 days
FallbackDate(weekStr) ==
    LET parts == SplitDot(weekStr)
        weekNum == toNumber(Str(parts[1]))
        year == toNumber(Str(parts[2]))
    IN YearStart(year) + weekNum * 7

PoPlaceholder == <<"-">>

\* mutant: a date is computed whatever the quantity
calculatePoDateOfAnyQty(weekStr, leadTimeDays, mrpQty, wp) ==
    LET planned == WeekPlanDate(weekStr, wp) IN
    formatPoDate((IF planned.valid THEN planned.day ELSE FallbackDate(weekStr))
                 - leadTimeDays)

calculatePoDate(weekStr, leadTimeDays, mrpQty, wp) ==
    IF mrpQty <= 0 THEN PoPlaceholder
    ELSE LET planned == WeekPlanDate(weekStr, wp)
             requiredDate == IF planned.valid THEN planned.day ELSE FallbackDate(weekStr)
         IN formatPoDate(requiredDate - leadTimeDays)

----------------------------------------------------------------------------
(* Header normalisation and column resolution *)

RECURSIVE CollapseSpaces(_)
\* replaceAll(/\s+/g, ' ')
CollapseSpaces(s) ==
    IF s = <<>> THEN <<>>
    ELSE IF IsSpace(Head(s))
         THEN <<" ">> \o CollapseSpaces(TrimStart(s))
         ELSE <<Head(s)>> \o CollapseSpaces(Tail(s))

\* replaceAll('_', ' ')
UnderscoreToSpace(s) == [i \in 1..Len(s) |-> IF s[i] = "_" THEN " " ELSE s[i]]

normalizeHeaderValue(v) ==
    UnderscoreToSpace(CollapseSpaces(toLowerCase(Trim(StringOf(v)))))

T_child == <<"c","h","i","l","d">>
T_childpart == <<"c","h","i","l","d","p","a","r","t">>
T_child_part == <<"c","h","i","l","d"," ","p","a","r","t">>
T_component == <<"c","o","m","p","o","n","e","n","t">>
T_comp_part == <<"c","o","m","p"," ","p","a","r","t">>
T_derived == <<"d","e","r","i","v","e","d">>
T_derived_material == <<"d","e","r","i","v","e","d"," ","m","a","t","e","r","i","a","l">>
T_quantity == <<"q","u","a","n","t","i","t","y">>
T_per_kit == <<"p","e","r"," ","k","i","t">>
T_uom == <<"u","o","m">>
T_unit == <<"u","n","i","t">>

RowHas(row, q) == \E i \in 1..Len(row) : Includes(normalizeHeaderValue(row[i]), q)

\* the BOM matchers handed to findHeaderRowIndex
BomHeaderRowMatch(row) == RowHas(row, T_child) /\ RowHas(row, T_derived)

MaxScan == 10

\* mutant: every row of the sheet is scanned
findHeaderRowIndexOfAllRows(rows) ==
    LET hits == {i \in 1..Len(rows) : BomHeaderRowMatch(rows[i])}
    IN IF hits = {} THEN 0 ELSE (CHOOSE i \in hits : \A j \in hits : i <= j) - 1

\* findHeaderRowIndex(rows, [child, derived], 10), 0-based
findHeaderRowIndex(rows) ==
    LET n == IF MaxScan < Len(rows) THEN MaxScan ELSE Len(rows)
        hits == {i \in 1..n : BomHeaderRowMatch(rows[i])}
    IN IF hits = {} THEN 0 ELSE (CHOOSE i \in hits : \A j \in hits : i <= j) - 1

ChildPartMatch(h) ==
    \/ Includes(h, T_child_part)
    \/ h = T_child
    \/ h = T_childpart
    \/ Includes(h, T_childpart)
    \/ Includes(h, T_component)
    \/ Includes(h, T_comp_part)

UomMatch(h) ==
    \/ h = T_uom
    \/ Includes(h, <<" ">> \o T_uom)
    \/ Includes(h, T_unit)

\* findColumnIndex(headers, child-part predicates)
ChildPartColumn(headers) ==
    FindIndex({i \in 1..Len(headers) :
                  LET h == normalizeHeaderValue(headers[i]) IN
                  h # <<>> /\ ChildPartMatch(h)})

\* findColumnIndex(headers, uom predicates)
UomColumn(headers) ==
    FindIndex({i \in 1..Len(headers) :
                  LET h == normalizeHeaderValue(headers[i]) IN
                  h # <<>> /\ UomMatch(h)})

\* seq.filter(keep), given the kept positions
RECURSIVE FilterSeq(_, _)
FilterSeq(s, keep) ==
    IF s = <<>> THEN <<>>
    ELSE (IF 1 \in keep THEN <<Head(s)>> ELSE <<>>)
         \o FilterSeq(Tail(s), {i - 1 : i \in keep \ {1}})

\* mutant: no de-duplication
DistinctKeepsRepeats(s) == s

\* [...new Set(seq)]: the distinct elements in order of first appearance
RECURSIVE Distinct(_)
Distinct(s) ==
    IF s = <<>> THEN <<>>
    ELSE LET d == Distinct(SubSeq(s, 1, Len(s) - 1)) IN
         IF SeqHas(d, s[Len(s)]) THEN d ELSE Append(d, s[Len(s)])

\* [...new Set(bomRows.map(child part, trimmed).filter(Boolean))]
UniqueMaterials(bomRows, childPartIdx) ==
    LET cells == [i \in 1..Len(bomRows) |-> Trim(StringOf(CellAt(bomRows[i], childPartIdx)))]
    IN Distinct(FilterSeq(cells, {i \in 1..Len(cells) : cells[i] # <<>>}))

----------------------------------------------------------------------------
(* Periods *)

\* /^\d{2}\.\d{4}$/.test(s)
IsPeriodText(s) ==
    /\ Len(s) = 7
    /\ IsDigit(s[1]) /\ IsDigit(s[2])
    /\ s[3] = "."
    /\ \A i \in 4..7 : IsDigit(s[i])

\* the trimmed text of every header cell that is a period, in header order
AllWeeks(idpHeaders) ==
    LET cells == [i \in 1..Len(idpHeaders) |-> Trim(StringOf(idpHeaders[i]))]
    IN FilterSeq(cells, {i \in 1..Len(cells) : cells[i] # <<>> /\ IsPeriodText(cells[i])})

\* mutant: the end week is excluded
WeekInWindowEndExclusive(w, sw, ew) ==
    LET num == toNumber(Str(SplitDot(w)[1])) IN num >= sw /\ num < ew

\* Number(w.split('.')[0]) >= startWeek && ... <= endWeek
WeekInWindow(w, sw, ew) ==
    LET num == toNumber(Str(SplitDot(w)[1])) IN num >= sw /\ num <= ew

\* allWeeks.filter(year).filter(week window)
SelectedWeeks(allWeeks, year, sw, ew) ==
    LET weeksInYear == FilterSeq(allWeeks,
                           {i \in 1..Len(allWeeks) : SplitDot(allWeeks[i])[2] = year})
    IN FilterSeq(weeksInYear,
                 {i \in 1..Len(weeksInYear) : WeekInWindow(weeksInYear[i], sw, ew)})

----------------------------------------------------------------------------
(* Supplier lookup *)

SdDefault == [vendor |-> <<>>, vendorLeadTime |-> 0, transportTime |-> 0, totalLeadTime |-> 0]

SdIsVendorLeadTime(h) ==
    RawHeaderHas(h, <<"v","e","n","d","o","r"," ","l","e","a","d","-","t","i","m","e">>)
SdIsTransportTime(h) ==
    RawHeaderHas(h, <<"t","r","a","n","s","p","o","r","t"," ","t","i","m","e">>)

SdEntryOfRow(headers, row) ==
    LET vendorLeadTime ==
            toNumber(CellAt(row, FindIndex({i \in 1..Len(headers) : SdIsVendorLeadTime(headers[i])})))
        transportTime ==
            toNumber(CellAt(row, FindIndex({i \in 1..Len(headers) : SdIsTransportTime(headers[i])})))
    IN [vendor |-> Trim(StringOf(CellAt(row, 1))),
        vendorLeadTime |-> vendorLeadTime,
        transportTime |-> transportTime,
        totalLeadTime |-> vendorLeadTime + transportTime]

\* mutant: the last row of a material wins
SdReplacesAlways(map, material, entry) == TRUE

\* !map.has(material) || map.get(material).totalLeadTime > totalLeadTime
SdReplaces(map, material, entry) ==
    \/ ~MapHas(map, material)
    \/ MapGet(map, material, entry).totalLeadTime > entry.totalLeadTime

RECURSIVE SdFold(_, _, _)
SdFold(headers, rows, map) ==
    IF rows = <<>> THEN map
    ELSE LET row == Head(rows)
             material == Trim(StringOf(CellAt(row, 0)))
             entry == SdEntryOfRow(headers, row)
         IN SdFold(headers, Tail(rows),
                   IF material = <<>> THEN map
                   ELSE IF SdReplaces(map, material, entry)
                        THEN MapSet(map, material, entry)
                        ELSE map)

buildSupplierDetailsMap(headers, rows) == SdFold(headers, rows, <<>>)

----------------------------------------------------------------------------
(* Demand explosion *)

BomIsDerivedMaterial(h) == RawHeaderHas(h, T_derived_material)
BomIsChildPart(h) == RawHeaderHas(h, T_child_part)
BomIsQuantity(h) == RawHeaderHas(h, T_quantity) \/ RawHeaderHas(h, T_per_kit)

\* the columns buildProductionDemandMap resolves for itself
ExplodeColumns(idpHeaders, bomHeaders) ==
    [bomDerivedMaterialIdx |->
         FindIndex({i \in 1..Len(bomHeaders) : BomIsDerivedMaterial(bomHeaders[i])}),
     bomChildPartIdx |->
         FindIndex({i \in 1..Len(bomHeaders) : BomIsChildPart(bomHeaders[i])}),
     bomQtyIdx |->
         FindIndex({i \in 1..Len(bomHeaders) : BomIsQuantity(bomHeaders[i])}),
     idpDerivedMaterialIdx |->
         FindIndex({i \in 1..Len(idpHeaders) : BomIsDerivedMaterial(idpHeaders[i])})]

\* mutant: every period column of the plan, selected or not
WeekColsOfEveryPeriod(idpHeaders, selWeeks) ==
    LET cells == [i \in 1..Len(idpHeaders) |->
                     [index |-> i - 1, week |-> Trim(StringOf(idpHeaders[i]))]]
    IN FilterSeq(cells, {i \in 1..Len(cells) :
                            /\ cells[i].week # <<>>
                            /\ IsPeriodText(cells[i].week)})

\* weekCols: [index (0-based), week] of every period column of the window
WeekCols(idpHeaders, selWeeks) ==
    LET cells == [i \in 1..Len(idpHeaders) |->
                     [index |-> i - 1, week |-> Trim(StringOf(idpHeaders[i]))]]
    IN FilterSeq(cells, {i \in 1..Len(cells) :
                            /\ cells[i].week # <<>>
                            /\ IsPeriodText(cells[i].week)
                            /\ SeqHas(selWeeks, cells[i].week)})

\* bomLookup: parent -> [childPart, quantity] items, in row order
RECURSIVE BomLookup(_, _, _)
BomLookup(cols, bomRows, lookup) ==
    IF bomRows = <<>> THEN lookup
    ELSE LET row == Head(bomRows)
             derivedMaterial == Trim(StringOf(CellAt(row, cols.bomDerivedMaterialIdx)))
             childPart == Trim(StringOf(CellAt(row, cols.bomChildPartIdx)))
             qty == toNumber(CellAt(row, cols.bomQtyIdx))
         IN BomLookup(cols, Tail(bomRows),
                IF derivedMaterial = <<>> \/ childPart = <<>> \/ qty <= 0 THEN lookup
                ELSE MapSet(lookup, derivedMaterial,
                            Append(MapGet(lookup, derivedMaterial, <<>>),
                                   [childPart |-> childPart, quantity |-> qty])))

\* weekMap.set(wk.week, (weekMap.get(wk.week) ?? 0) + demandQty)
DemandAdd(demandMap, childPart, week, demandQty) ==
    LET weekMap == MapGet(demandMap, childPart, <<>>) IN
    MapSet(demandMap, childPart, MapSet(weekMap, week, MapGet(weekMap, week, 0) + demandQty))

RECURSIVE ExplodeItems(_, _, _, _)
ExplodeItems(bomItems, week, productionQty, demandMap) ==
    IF bomItems = <<>> THEN demandMap
    ELSE ExplodeItems(Tail(bomItems), week, productionQty,
                      DemandAdd(demandMap, Head(bomItems).childPart, week,
                                productionQty * Head(bomItems).quantity))

RECURSIVE ExplodeWeeks(_, _, _, _)
ExplodeWeeks(row, weekCols, bomItems, demandMap) ==
    IF weekCols = <<>> THEN demandMap
    ELSE LET wk == Head(weekCols)
             productionQty == toNumber(CellAt(row, wk.index))
         IN ExplodeWeeks(row, Tail(weekCols), bomItems,
                IF productionQty <= 0 THEN demandMap
                ELSE ExplodeItems(bomItems, wk.week, productionQty, demandMap))

\* mutant: the items of every parent, whatever the plan row's parent is
RECURSIVE BomItemsOfAnyParent(_, _)
BomItemsOfAnyParent(bomLookup, derivedMaterial) ==
    IF bomLookup = <<>> THEN <<>>
    ELSE Head(bomLookup).v \o BomItemsOfAnyParent(Tail(bomLookup), derivedMaterial)

\* bomLookup.get(derivedMaterial) ?? []
BomItemsOf(bomLookup, derivedMaterial) == MapGet(bomLookup, derivedMaterial, <<>>)

RECURSIVE ExplodeRows(_, _, _, _, _)
ExplodeRows(cols, idpRows, weekCols, bomLookup, demandMap) ==
    IF idpRows = <<>> THEN demandMap
    ELSE LET row == Head(idpRows)
             derivedMaterial == Trim(StringOf(CellAt(row, cols.idpDerivedMaterialIdx)))
         IN ExplodeRows(cols, Tail(idpRows), weekCols, bomLookup,
                IF derivedMaterial = <<>> THEN demandMap
                ELSE ExplodeWeeks(row, weekCols, BomItemsOf(bomLookup, derivedMaterial),
                                  demandMap))

buildProductionDemandMap(idpHeaders, idpRows, bomHeaders, bomRows, selWeeks) ==
    LET cols == ExplodeColumns(idpHeaders, bomHeaders) IN
    ExplodeRows(cols, idpRows, WeekCols(idpHeaders, selWeeks),
                BomLookup(cols, bomRows, <<>>), <<>>)

----------------------------------------------------------------------------
(* The MrpRow of one material *)

\* mutant: totalDemand is assigned, not accumulated
WalkStepTotalIsLastPeriod(acc, entry, mm, sd, wp, selWeeks) ==
    LET step == PeriodStep(mm, acc.remainingExcess, entry.v) IN
    [weeklyDemand    |-> MapSet(acc.weeklyDemand, entry.k, entry.v),
     totalDemand     |-> IF SeqHas(selWeeks, entry.k) THEN entry.v ELSE acc.totalDemand,
     remainingExcess |-> step.remainingExcess,
     adjustedDemand  |-> step.adjustedDemand,
     weeklyMrpQty    |-> MapSet(acc.weeklyMrpQty, entry.k, step.requiredQty),
     weeklyPoDate    |-> MapSet(acc.weeklyPoDate, entry.k,
                                calculatePoDate(entry.k, sd.totalLeadTime,
                                                step.requiredQty, wp))]

\* one call of the demandByWeek.forEach callback
WalkStep(acc, entry, mm, sd, wp, selWeeks) ==
    LET week == entry.k
        qty == entry.v
        step == PeriodStep(mm, acc.remainingExcess, qty)
    IN [weeklyDemand    |-> MapSet(acc.weeklyDemand, week, qty),
        totalDemand     |-> IF SeqHas(selWeeks, week)
                            THEN acc.totalDemand + qty ELSE acc.totalDemand,
        remainingExcess |-> step.remainingExcess,
        adjustedDemand  |-> step.adjustedDemand,
        weeklyMrpQty    |-> MapSet(acc.weeklyMrpQty, week, step.requiredQty),
        weeklyPoDate    |-> MapSet(acc.weeklyPoDate, week,
                                   calculatePoDate(week, sd.totalLeadTime,
                                                   step.requiredQty, wp))]

RECURSIVE WalkFold(_, _, _, _, _, _)
WalkFold(entries, acc, mm, sd, wp, selWeeks) ==
    IF entries = <<>> THEN acc
    ELSE WalkFold(Tail(entries), WalkStep(acc, Head(entries), mm, sd, wp, selWeeks),
                  mm, sd, wp, selWeeks)

WalkStart(mm) ==
    [weeklyDemand |-> <<>>, weeklyMrpQty |-> <<>>, weeklyPoDate |-> <<>>,
     totalDemand |-> 0, remainingExcess |-> ExcessOf(mm), adjustedDemand |-> 0]

lookupBomUom(material, bomRows, childPartIdx, uomIdx) ==
    LET hits == {i \in 1..Len(bomRows) :
                    Trim(StringOf(CellAt(bomRows[i], childPartIdx))) = material}
    IN IF hits = {} THEN <<>>
       ELSE Trim(StringOf(CellAt(bomRows[CHOOSE i \in hits : \A j \in hits : i <= j],
                                 uomIdx)))

\* the callback of uniqueMaterials.map
MrpRowOf(material, bomRows, childPartIdx, uomIdx, mmMap, sdMap, demandMap, selWeeks, wp) ==
    LET mm == MapGet(mmMap, material, MmDefault)
        sd == MapGet(sdMap, material, SdDefault)
        walk == WalkFold(MapGet(demandMap, material, <<>>), WalkStart(mm), mm, sd, wp,
                         selWeeks)
    IN [material     |-> material,
        uom          |-> lookupBomUom(material, bomRows, childPartIdx, uomIdx),
        supplierCode |-> sd.vendor,
        mpq          |-> mm.mpq,
        moq          |-> mm.moq,
        reorder      |-> mm.reorder,
        instock      |-> mm.instock,
        pendingPo    |-> mm.pendingPo,
        excessQty    |-> ExcessOf(mm),
        leadTime     |-> sd.totalLeadTime,
        weeklyDemand |-> walk.weeklyDemand,
        weeklyMrpQty |-> walk.weeklyMrpQty,
        weeklyPoDate |-> walk.weeklyPoDate,
        totalDemand  |-> walk.totalDemand]

----------------------------------------------------------------------------
(* calculateMrpDataInternal *)

Null == [isNull |-> TRUE, rows |-> <<>>]
Rows(rows) == [isNull |-> FALSE, rows |-> rows]

\* rows.slice(n)
SliceFrom(s, n) == IF n >= Len(s) THEN <<>> ELSE SubSeq(s, n + 1, Len(s))

\* what one call does: the alert it raises and, when it gets that far, what
\* it publishes
EngineRun(in, year, sw, ew) ==
    IF ~HasData(in.bom)
    THEN [alert |-> "Data Error", published |-> FALSE]
    ELSE IF ~HasData(in.idp)
    THEN [alert |-> "Data Error", published |-> FALSE]
    ELSE IF ~HasData(in.materialMaster) \/ ~HasData(in.supplierDetails)
    THEN [alert |-> "Data Error", published |-> FALSE]
    ELSE
    LET bomAllRows == in.bom.jsonData
        bomHeaderRowIndex == findHeaderRowIndex(bomAllRows)
        bomHeaders == bomAllRows[bomHeaderRowIndex + 1]
        bomRows == SliceFrom(bomAllRows, bomHeaderRowIndex + 1)
        childPartIdx == ChildPartColumn(bomHeaders)
        uomIdx == UomColumn(bomHeaders)
    IN
    IF childPartIdx = -1
    THEN [alert |-> "Column Error", published |-> FALSE]
    ELSE
    LET uniqueMaterials == UniqueMaterials(bomRows, childPartIdx)
        mmHeaders == in.materialMaster.jsonData[1]
        mmRows == Tail(in.materialMaster.jsonData)
        sdHeaders == in.supplierDetails.jsonData[1]
        sdRows == Tail(in.supplierDetails.jsonData)
        idpHeaders == in.idp.jsonData[1]
        idpRows == Tail(in.idp.jsonData)
        allWeeks == AllWeeks(idpHeaders)
        selWeeks == SelectedWeeks(allWeeks, year, sw, ew)
        materialMasterMap == buildMaterialMasterMap(mmHeaders, mmRows)
        supplierDetailsMap == buildSupplierDetailsMap(sdHeaders, sdRows)
        demandMap == buildProductionDemandMap(idpHeaders, idpRows, bomHeaders, bomRows,
                                              selWeeks)
    IN [alert |-> "Calculation Complete",
        published |-> TRUE,
        mrpData |-> [i \in 1..Len(uniqueMaterials) |->
                        MrpRowOf(uniqueMaterials[i], bomRows, childPartIdx, uomIdx,
                                 materialMasterMap, supplierDetailsMap, demandMap,
                                 selWeeks, in.weekPlan)],
        allWeeks |-> allWeeks,
        selectedWeeks |-> selWeeks,
        demandMap |-> demandMap]

calculateMrpDataInternal ==
    /\ alert = ""
    /\ \E run \in {EngineRun(inputs, selectedYear, startWeek, endWeek)} :
       /\ alert' = run.alert
       /\ IF run.published
          THEN /\ mrpCalculatedData' = Rows(run.mrpData)
               /\ allWeekColumns' = run.allWeeks
               /\ weekColumns' = run.selectedWeeks
               /\ productionDemandMap' = run.demandMap
          ELSE UNCHANGED <<mrpCalculatedData, allWeekColumns, weekColumns,
                           productionDemandMap>>
    /\ UNCHANGED <<inputs, selectedYear, startWeek, endWeek>>
    /\ UNCHANGED <<walkVars, pageVars, callVars>>

NextEngine == calculateMrpDataInternal

\* the component state before a computation: result null, no alert
EngineIdle ==
    /\ mrpCalculatedData = Null
    /\ weekColumns = <<>>
    /\ allWeekColumns = <<>>
    /\ productionDemandMap = <<>>
    /\ alert = ""

NoInputs == [bom |-> NullDoc, materialMaster |-> NullDoc, idp |-> NullDoc,
             supplierDetails |-> NullDoc, weekPlan |-> NullDoc]

DefaultStartWeek == 1
DefaultEndWeek == 20

\* no material is being walked
WalkIdle ==
    /\ mmInfo = MmDefault
    /\ demandByWeek = <<>>
    /\ selectedWeeks = <<>>
    /\ sdInfo = SdDefault
    /\ weekPlan = NullDoc
    /\ visited = 0
    /\ excessQty = 0
    /\ remainingExcess = 0
    /\ excessTrace = <<0>>
    /\ adjustedTrace = <<>>
    /\ weeklyDemand = <<>>
    /\ weeklyMrpQty = <<>>
    /\ weeklyPoDate = <<>>
    /\ totalDemand = 0

NoRun == [id |-> 0]
NoCall == [fn |-> "none"]

Sources == {"bom", "materialMaster", "idp", "supplierDetails", "weekPlan"}

NoResult == [success |-> FALSE, isNull |-> TRUE]

\* no fetchDataSource has been called: every loadingStatus is 'pending'
LoadsIdle ==
    [s \in Sources |-> [pc |-> "idle", status |-> "pending", backend |-> "none",
                        local |-> "none", res |-> NoResult]]

\* the page as it is mounted: the week inputs show the defaults, no run
PageIdle ==
    /\ startWeekText = NatText(DefaultStartWeek)
    /\ endWeekText = NatText(DefaultEndWeek)
    /\ isLoading = FALSE
    /\ pending = <<>>
    /\ started = 0
    /\ finished = NoRun
    /\ requests = 0
    /\ loads = LoadsIdle

\* no function is applied on its own
CallIdle ==
    /\ call = NoCall
    /\ result = NoCall

----------------------------------------------------------------------------
(* The period walk of one material (demandByWeek.forEach of
   calculateMrpDataInternal), one period per step *)

\* "WW.YYYY"
T_A == <<"A">>

PeriodText(week, year) == PadStart2(NatText(week)) \o <<".">> \o NatText(year)

WalkYear == 2024

MmHeaders ==
    << Str(<<"M","a","t","e","r","i","a","l">>), Str(<<"M","P","Q">>), Str(<<"M","O","Q">>),
       Str(<<"R","e","o","r","d","e","r">>), Str(<<"I","n","s","t","o","c","k">>),
       Str(<<"P","e","n","d","i","n","g"," ","P","O">>) >>

MpqCells == {Num(0), Num(10), Num(25)}
MoqCells == {Num(0), Num(30), Num(100)}
ReorderCells == {Num(0), Str(<<"5","0">>)}
InstockCells == {Num(0), Num(15), Num(60), Num(-5), Str(<<"n","/","a">>)}
PendingPoCells == {Str(<<>>), Str(<<" ","5"," ">>)}
DemandQtys == {20, 40, 51}

WalkWeekPlan ==
    Doc(<<"W","P">>,
        << << Str(<<"W","e","e","k">>), Str(<<"S","t","a","r","t"," ","D","a","t","e">>) >>,
           << Str(PeriodText(1, WalkYear)), Num(45300) >>,
           << Num(2), Str(<<"2","0","2","4","-","0","1","-","0","8">>) >> >>)

WalkSchedules ==
    { [sd |-> SdDefault, wp |-> NullDoc],
      [sd |-> [vendor |-> <<"V">>, vendorLeadTime |-> 7, transportTime |-> 3,
               totalLeadTime |-> 10],
       wp |-> WalkWeekPlan] }

WalkDemands ==
    UNION { [1..n -> DemandQtys] : n \in 0..MaxPeriods }

InitWalk ==
    /\ \E mpq \in MpqCells, moq \in MoqCells, reorder \in ReorderCells,
          instock \in InstockCells, pendingPo \in PendingPoCells :
           LET row == <<Str(T_A), mpq, moq, reorder, instock, pendingPo>> IN
           mmInfo = MapGet(buildMaterialMasterMap(MmHeaders, <<row>>), T_A, MmDefault)
    /\ \E qtys \in WalkDemands :
           demandByWeek = [i \in 1..Len(qtys) |->
                              [k |-> PeriodText(i, WalkYear), v |-> qtys[i]]]
    /\ \E sched \in WalkSchedules :
           /\ sdInfo = sched.sd
           /\ weekPlan = sched.wp
    /\ selectedWeeks = [i \in 1..MaxPeriods |-> PeriodText(i, WalkYear)]
    /\ visited = 0
    /\ excessQty = ExcessOf(mmInfo)
    /\ remainingExcess = excessQty
    /\ excessTrace = <<excessQty>>
    /\ adjustedTrace = <<>>
    /\ weeklyDemand = <<>>
    /\ weeklyMrpQty = <<>>
    /\ weeklyPoDate = <<>>
    /\ totalDemand = 0
    /\ EngineIdle
    /\ PageIdle
    /\ CallIdle
    /\ inputs = NoInputs
    /\ selectedYear = NatText(WalkYear)
    /\ startWeek = DefaultStartWeek
    /\ endWeek = DefaultEndWeek

NetPeriod ==
    /\ visited < Len(demandByWeek)
    /\ \E nxt \in {WalkStep([weeklyDemand |-> weeklyDemand,
                               weeklyMrpQty |-> weeklyMrpQty,
                               weeklyPoDate |-> weeklyPoDate,
                               totalDemand |-> totalDemand,
                               remainingExcess |-> remainingExcess,
                               adjustedDemand |-> 0],
                              demandByWeek[visited + 1], mmInfo, sdInfo, weekPlan,
                              selectedWeeks)} :
          /\ weeklyDemand' = nxt.weeklyDemand
          /\ totalDemand' = nxt.totalDemand
          /\ remainingExcess' = nxt.remainingExcess
          /\ excessTrace' = Append(excessTrace, nxt.remainingExcess)
          /\ adjustedTrace' = Append(adjustedTrace, nxt.adjustedDemand)
          /\ weeklyMrpQty' = nxt.weeklyMrpQty
          /\ weeklyPoDate' = nxt.weeklyPoDate
    /\ visited' = visited + 1
    /\ UNCHANGED <<mmInfo, demandByWeek, excessQty, selectedWeeks, sdInfo, weekPlan>>
    /\ UNCHANGED <<engineVars, pageVars, callVars>>

NextWalk == NetPeriod

SpecWalk == InitWalk /\ [][NextWalk]_vars

----------------------------------------------------------------------------
(* Documents of the engine specifications *)

MaxBomRows == 2
MaxIdpRows == 2
MaxWeekCols == 3

T_P == <<"P">>
T_Q == <<"Q">>
T_B == <<"B">>
H_DerivedMaterial == Str(<<"D","e","r","i","v","e","d"," ","M","a","t","e","r","i","a","l">>)
H_ChildPart == Str(<<"C","h","i","l","d"," ","P","a","r","t">>)
H_Child_Part == Str(<<"C","h","i","l","d","_","P","a","r","t">>)
H_Quantity == Str(<<"Q","u","a","n","t","i","t","y">>)
H_Uom == Str(<<"U","O","M">>)
H_Title == Str(<<"B","O","M"," ","2","0","2","4">>)

\* the rows above the data rows of a BOM sheet: the header with the child
\* column spelt with an underscore, and the usual header under a title row
BomLayouts ==
    { << <<H_DerivedMaterial, H_Child_Part, H_Quantity, H_Uom>> >>,
      << <<H_Title, Str(<<>>), Str(<<>>), Str(<<>>)>>,
         <<H_DerivedMaterial, H_ChildPart, H_Quantity, H_Uom>> >> }

\* data rows: [parent, child, quantity per parent unit, uom]
BomDataRows ==
    { <<Str(T_P), Str(T_A), Num(2), Str(<<"E","A">>)>>,
      <<Str(T_Q), Str(<<" ","A"," ">>), Str(<<"3">>), Str(<<"K","G">>)>>,
      <<Str(T_P), Str(T_B), Num(0), Str(<<>>)>>,
      <<Str(T_P), Str(<<" "," ">>), Num(5), Str(<<"E","A">>)>>,
      <<Str(<<>>), Str(T_B), Num(4), Str(<<"E","A">>)>> }

SeqsUpTo(S, n) == UNION { [1..k -> S] : k \in 0..n }

\* plan header: the parent column, two periods of 2024 and one of 2025
IdpHeaders ==
    <<H_DerivedMaterial, Str(PeriodText(1, WalkYear)), Str(PeriodText(2, WalkYear)),
      Str(PeriodText(3, WalkYear + 1))>>

\* plan rows: [parent, produced in 01, in 02, in 03 of the next year]
IdpDataRows ==
    { <<Str(<<" ","P">>), Num(5), Num(-2), Num(9)>>,
      <<Str(T_Q), Str(<<"7">>), Num(4), Num(0)>> }

EngineMaterialMaster ==
    Doc(<<"M","M">>,
        << MmHeaders,
           <<Str(T_A), Num(10), Num(0), Num(0), Num(15), Num(0)>> >>)

H_Vendor == Str(<<"V","e","n","d","o","r">>)
H_VendorLeadTime ==
    Str(<<"V","e","n","d","o","r"," ","L","e","a","d","-","T","i","m","e">>)
H_TransportTime == Str(<<"T","r","a","n","s","p","o","r","t"," ","T","i","m","e">>)

EngineSupplierDetails ==
    Doc(<<"S","D">>,
        << <<Str(<<"M","a","t","e","r","i","a","l">>), H_Vendor, H_VendorLeadTime,
             H_TransportTime>>,
           <<Str(T_A), Str(<<"V","1">>), Num(7), Num(3)>> >>)

EngineStart ==
    /\ WalkIdle
    /\ EngineIdle
    /\ PageIdle
    /\ CallIdle

\* every BOM and plan of the bounds, the window left at its defaults
InitExplode ==
    /\ \E layout \in BomLayouts, bomRows \in SeqsUpTo(BomDataRows, MaxBomRows),
          idpRows \in SeqsUpTo(IdpDataRows, MaxIdpRows) :
           inputs = [bom |-> Doc(<<"B","O","M">>, layout \o bomRows),
                     materialMaster |-> EngineMaterialMaster,
                     idp |-> Doc(<<"I","D","P">>, <<IdpHeaders>> \o idpRows),
                     supplierDetails |-> EngineSupplierDetails,
                     weekPlan |-> WalkWeekPlan]
    /\ selectedYear = NatText(WalkYear)
    /\ startWeek = DefaultStartWeek
    /\ endWeek = DefaultEndWeek
    /\ EngineStart

SpecExplode == InitExplode /\ [][NextEngine]_vars

\* header cells of the plan's period columns
WeekHeaderCells ==
    { Str(PeriodText(1, WalkYear)),
      Str(<<" ">> \o PeriodText(2, WalkYear) \o <<" ">>),
      Str(PeriodText(10, WalkYear)),
      Str(PeriodText(3, WalkYear + 1)),
      Str(<<"3",".","2","0","2","4">>),
      Num(12) }

Windows ==
    { [year |-> NatText(WalkYear), startWeek |-> 1, endWeek |-> 20],
      [year |-> NatText(WalkYear), startWeek |-> 2, endWeek |-> 10],
      [year |-> NatText(WalkYear), startWeek |-> 3, endWeek |-> 9],
      [year |-> NatText(WalkYear + 1), startWeek |-> 1, endWeek |-> 53] }

WindowBom ==
    Doc(<<"B","O","M">>,
        << <<H_DerivedMaterial, H_ChildPart, H_Quantity, H_Uom>>,
           <<Str(T_P), Str(T_A), Num(2), Str(<<"E","A">>)>> >>)

\* every plan header of the bounds under every window; the one plan row
\* produces 5 in every column
InitWindow ==
    /\ \E cells \in SeqsUpTo(WeekHeaderCells, MaxWeekCols) :
           inputs = [bom |-> WindowBom,
                     materialMaster |-> EngineMaterialMaster,
                     idp |-> Doc(<<"I","D","P">>,
                                 << <<H_DerivedMaterial>> \o cells,
                                    <<Str(T_P)>> \o [i \in 1..Len(cells) |-> Num(5)] >>),
                     supplierDetails |-> EngineSupplierDetails,
                     weekPlan |-> WalkWeekPlan]
    /\ \E w \in Windows :
           /\ selectedYear = w.year
           /\ startWeek = w.startWeek
           /\ endWeek = w.endWeek
    /\ EngineStart

SpecWindow == InitWindow /\ [][NextEngine]_vars

----------------------------------------------------------------------------
(* One computation over plans whose rows feed one child in different columns *)

\* A is a child of P and of Q, B of P only
OrderBom ==
    Doc(<<"B","O","M">>,
        << <<H_DerivedMaterial, H_ChildPart, H_Quantity, H_Uom>>,
           <<Str(T_P), Str(T_A), Num(2), Str(<<"E","A">>)>>,
           <<Str(T_Q), Str(T_A), Num(3), Str(<<"E","A">>)>>,
           <<Str(T_P), Str(T_B), Num(1), Str(<<"E","A">>)>> >>)

\* two period columns: in week order, and with the later week on the left
OrderIdpHeaders ==
    { <<H_DerivedMaterial, Str(PeriodText(1, WalkYear)), Str(PeriodText(2, WalkYear))>>,
      <<H_DerivedMaterial, Str(PeriodText(10, WalkYear)), Str(PeriodText(2, WalkYear))>> }

\* plan rows: [parent, produced in the left column, in the right column]
OrderIdpRows ==
    { <<Str(T_P), Num(0), Num(6)>>,
      <<Str(T_P), Num(5), Num(0)>>,
      <<Str(T_Q), Num(4), Num(0)>>,
      <<Str(T_Q), Num(2), Num(3)>> }

\* on-hand stock of A: none, less than one period's demand, more than one
OrderInstocks == {0, 8, 15}

OrderMaterialMaster(instock) ==
    Doc(<<"M","M">>,
        << MmHeaders,
           <<Str(T_A), Num(0), Num(0), Num(0), Num(instock), Num(0)>> >>)

InitOrder ==
    /\ \E headers \in OrderIdpHeaders, idpRows \in SeqsUpTo(OrderIdpRows, MaxIdpRows),
          instock \in OrderInstocks :
           inputs = [bom |-> OrderBom,
                     materialMaster |-> OrderMaterialMaster(instock),
                     idp |-> Doc(<<"I","D","P">>, <<headers>> \o idpRows),
                     supplierDetails |-> EngineSupplierDetails,
                     weekPlan |-> WalkWeekPlan]
    /\ selectedYear = NatText(WalkYear)
    /\ startWeek = DefaultStartWeek
    /\ endWeek = DefaultEndWeek
    /\ EngineStart

SpecOrder == InitOrder /\ [][NextEngine]_vars

----------------------------------------------------------------------------
(* The page: the week inputs, the Calculate MRP requests and their runs *)

MaxRequests == 2

\* Math.max(1, Math.min(53, v))
clampWeek(v) == IF v < 1 THEN 1 ELSE IF v > 53 THEN 53 ELSE v

\* the week commitStartWeek / commitEndWeek store: the one stored already
\* for a blank or non-numeric text
commitWeek(text, week) ==
    LET raw == Trim(text)
        n == NumberOfText(raw)
    IN IF raw = <<>> THEN week
       ELSE IF ~n.finite THEN week
       ELSE clampWeek(n.n)

\* the week the onChange handler stores for the typed text v
changeWeek(v, week) ==
    LET n == NumberOfText(v)
    IN IF v = <<>> THEN week
       ELSE IF ~n.finite THEN week
       ELSE clampWeek(n.n)

\* the effect on the stored week: the input shows it when it has changed
ShownText(text, oldWeek, newWeek) ==
    IF newWeek # oldWeek THEN NatText(newWeek) ELSE text

NoWeek == [isNull |-> TRUE, n |-> 0]

parseWeekText(raw) ==
    LET t == Trim(raw)
        n == NumberOfText(t)
    IN IF t = <<>> THEN NoWeek
       ELSE IF ~n.finite THEN NoWeek
       ELSE [isNull |-> FALSE, n |-> clampWeek(n.n)]

\* mutant: the order of the two weeks is not looked at
weekValidationWithoutOrder ==
    LET s == parseWeekText(startWeekText)
        e == parseWeekText(endWeekText)
    IN IF s.isNull \/ e.isNull THEN [isValid |-> FALSE]
       ELSE [isValid |-> TRUE]

weekValidation ==
    LET s == parseWeekText(startWeekText)
        e == parseWeekText(endWeekText)
    IN IF s.isNull \/ e.isNull THEN [isValid |-> FALSE]
       ELSE IF s.n > e.n THEN [isValid |-> FALSE]
       ELSE [isValid |-> TRUE]

\* what the user types into the start-week and the end-week input
StartWeekTexts == { <<>>, <<"x">>, <<"7">>, <<"6","0">> }
EndWeekTexts == { <<>>, <<"0">>, <<"3","0">> }

ChangeStartWeek ==
    \E v \in StartWeekTexts :
        /\ v # startWeekText
        /\ startWeek' = changeWeek(v, startWeek)
        /\ startWeekText' = ShownText(v, startWeek, startWeek')
        /\ UNCHANGED <<inputs, selectedYear, endWeek, mrpCalculatedData, weekColumns,
                       allWeekColumns, productionDemandMap, alert>>
        /\ UNCHANGED <<endWeekText, isLoading, pending, started, finished, requests>>
        /\ UNCHANGED <<walkVars, callVars, loads>>

ChangeEndWeek ==
    \E v \in EndWeekTexts :
        /\ v # endWeekText
        /\ endWeek' = changeWeek(v, endWeek)
        /\ endWeekText' = ShownText(v, endWeek, endWeek')
        /\ UNCHANGED <<inputs, selectedYear, startWeek, mrpCalculatedData, weekColumns,
                       allWeekColumns, productionDemandMap, alert>>
        /\ UNCHANGED <<startWeekText, isLoading, pending, started, finished, requests>>
        /\ UNCHANGED <<walkVars, callVars, loads>>

BlurStartWeek ==
    /\ IF Trim(startWeekText) = <<>>
       THEN /\ startWeekText' = NatText(startWeek)
            /\ UNCHANGED startWeek
       ELSE /\ startWeek' = commitWeek(startWeekText, startWeek)
            /\ startWeekText' = ShownText(startWeekText, startWeek, startWeek')
    /\ UNCHANGED <<inputs, selectedYear, endWeek, mrpCalculatedData, weekColumns,
                   allWeekColumns, productionDemandMap, alert>>
    /\ UNCHANGED <<endWeekText, isLoading, pending, started, finished, requests>>
    /\ UNCHANGED <<walkVars, callVars, loads>>

BlurEndWeek ==
    /\ IF Trim(endWeekText) = <<>>
       THEN /\ endWeekText' = NatText(endWeek)
            /\ UNCHANGED endWeek
       ELSE /\ endWeek' = commitWeek(endWeekText, endWeek)
            /\ endWeekText' = ShownText(endWeekText, endWeek, endWeek')
    /\ UNCHANGED <<inputs, selectedYear, startWeek, mrpCalculatedData, weekColumns,
                   allWeekColumns, productionDemandMap, alert>>
    /\ UNCHANGED <<startWeekText, isLoading, pending, started, finished, requests>>
    /\ UNCHANGED <<walkVars, callVars, loads>>

\* calculateMrp up to the first await of fetchAllData, with the window of
\* the render whose handler called it; on an invalid range it returns
\* before fetchAllData
calculateMrp ==
    IF ~weekValidation.isValid
    THEN UNCHANGED <<mrpCalculatedData, weekColumns, isLoading, pending, started>>
    ELSE /\ weekColumns' = IF Len(allWeekColumns) > 0
                           THEN SelectedWeeks(allWeekColumns, selectedYear, startWeek,
                                              endWeek)
                           ELSE weekColumns
         /\ isLoading' = TRUE
         /\ mrpCalculatedData' = Null
         /\ started' = started + 1
         /\ pending' = Append(pending, [id |-> started + 1, year |-> selectedYear,
                                        startWeek |-> startWeek, endWeek |-> endWeek])

\* onKeyDown with Enter in the start-week input
EnterStartWeek ==
    /\ requests < MaxRequests
    /\ requests' = requests + 1
    /\ startWeek' = commitWeek(startWeekText, startWeek)
    /\ startWeekText' = ShownText(startWeekText, startWeek, startWeek')
    /\ IF weekValidation.isValid
       THEN calculateMrp
       ELSE UNCHANGED <<mrpCalculatedData, weekColumns, isLoading, pending, started>>
    /\ UNCHANGED <<inputs, selectedYear, endWeek, allWeekColumns, productionDemandMap,
                   alert, endWeekText, finished>>
    /\ UNCHANGED <<walkVars, callVars, loads>>

EnterEndWeek ==
    /\ requests < MaxRequests
    /\ requests' = requests + 1
    /\ endWeek' = commitWeek(endWeekText, endWeek)
    /\ endWeekText' = ShownText(endWeekText, endWeek, endWeek')
    /\ IF weekValidation.isValid
       THEN calculateMrp
       ELSE UNCHANGED <<mrpCalculatedData, weekColumns, isLoading, pending, started>>
    /\ UNCHANGED <<inputs, selectedYear, startWeek, allWeekColumns, productionDemandMap,
                   alert, startWeekText, finished>>
    /\ UNCHANGED <<walkVars, callVars, loads>>

\* the Calculate MRP button, disabled while loading or on an invalid range
ClickCalculate ==
    /\ ~isLoading
    /\ weekValidation.isValid
    /\ requests < MaxRequests
    /\ requests' = requests + 1
    /\ calculateMrp
    /\ UNCHANGED <<inputs, selectedYear, startWeek, endWeek, allWeekColumns,
                   productionDemandMap, alert, startWeekText, endWeekText, finished>>
    /\ UNCHANGED <<walkVars, callVars, loads>>

\* what one source gives: the parsed file of the backend (none when there
\* is no file or the download fails) and the last parsed copy kept locally
Source(backend, local) == [backend |-> backend, local |-> local]

fetchDataSource(source) ==
    LET parsed == IF source.backend.isNull THEN source.local ELSE source.backend
    IN IF parsed.isNull \/ Len(parsed.jsonData) = 0
       THEN [success |-> FALSE, data |-> NullDoc]
       ELSE [success |-> TRUE, data |-> parsed]

PageIdp ==
    Doc(<<"I","D","P">>,
        << <<H_DerivedMaterial, Str(PeriodText(1, WalkYear)), Str(PeriodText(10, WalkYear))>>,
           <<Str(T_P), Num(5), Num(5)>> >>)

\* a BOM without a child-part column
PageBomNoChild ==
    Doc(<<"B","O","M">>,
        << <<H_DerivedMaterial, H_Quantity, H_Uom>>,
           <<Str(T_P), Num(2), Str(<<"E","A">>)>> >>)

EmptyDoc == Doc(<<"S","h","e","e","t","1">>, <<>>)

Loaded(doc) == Source(doc, NullDoc)
Missing == Source(NullDoc, NullDoc)

AllLoaded ==
    [bom |-> Loaded(WindowBom), materialMaster |-> Loaded(EngineMaterialMaster),
     idp |-> Loaded(PageIdp), supplierDetails |-> Loaded(EngineSupplierDetails),
     weekPlan |-> Loaded(WalkWeekPlan)]

\* what the five sources give during one run
Loads ==
    { AllLoaded,
      [AllLoaded EXCEPT !.weekPlan = Missing],
      [AllLoaded EXCEPT !.weekPlan = Source(NullDoc, WalkWeekPlan)],
      [AllLoaded EXCEPT !.bom = Missing],
      [AllLoaded EXCEPT !.bom = Source(EmptyDoc, WindowBom)],
      [AllLoaded EXCEPT !.bom = Loaded(PageBomNoChild)],
      [AllLoaded EXCEPT !.idp = Missing],
      [AllLoaded EXCEPT !.materialMaster = Missing],
      [AllLoaded EXCEPT !.supplierDetails = Source(NullDoc, EmptyDoc)] }

\* the documents calculateMrpDataInternal is handed after a load
LoadedInputs(load) ==
    [bom |-> fetchDataSource(load.bom).data,
     materialMaster |-> fetchDataSource(load.materialMaster).data,
     idp |-> fetchDataSource(load.idp).data,
     supplierDetails |-> fetchDataSource(load.supplierDetails).data,
     weekPlan |-> fetchDataSource(load.weekPlan).data]

\* the weeks the inputs of the model can store
PageStartWeeks ==
    {DefaultStartWeek} \cup {changeWeek(v, DefaultStartWeek) : v \in StartWeekTexts}
PageEndWeeks ==
    {DefaultEndWeek} \cup {changeWeek(v, DefaultEndWeek) : v \in EndWeekTexts}

\* the computation's outcome for each load and window of the model,
\* evaluated once
EngineRuns ==
    [in \in {LoadedInputs(load) : load \in Loads}, sw \in PageStartWeeks,
     ew \in PageEndWeeks |-> EngineRun(in, NatText(WalkYear), sw, ew)]

EngineRunOnce(in, year, sw, ew) ==
    IF year = NatText(WalkYear) /\ <<in, sw, ew>> \in DOMAIN EngineRuns
    THEN EngineRuns[in, sw, ew]
    ELSE EngineRun(in, year, sw, ew)

Remove(s, i) == [j \in 1..(Len(s) - 1) |-> IF j < i THEN s[j] ELSE s[j + 1]]

\* fetchAllData from the resolution of its five loads to its finally, for
\* any of the runs in flight
FetchAllDataFinish ==
    \E i \in 1..Len(pending), load \in Loads :
    \E bomRes \in {fetchDataSource(load.bom)},
       mmRes \in {fetchDataSource(load.materialMaster)},
       idpRes \in {fetchDataSource(load.idp)},
       sdRes \in {fetchDataSource(load.supplierDetails)},
       wpRes \in {fetchDataSource(load.weekPlan)} :
        /\ inputs' = [bom |-> bomRes.data, materialMaster |-> mmRes.data,
                      idp |-> idpRes.data, supplierDetails |-> sdRes.data,
                      weekPlan |-> wpRes.data]
        /\ IF bomRes.success /\ mmRes.success /\ idpRes.success /\ sdRes.success
              /\ wpRes.success
           THEN \E run \in {EngineRunOnce(inputs', pending[i].year,
                                          pending[i].startWeek, pending[i].endWeek)} :
                    /\ alert' = run.alert
                    /\ IF run.published
                       THEN /\ mrpCalculatedData' = Rows(run.mrpData)
                            /\ allWeekColumns' = run.allWeeks
                            /\ weekColumns' = run.selectedWeeks
                            /\ productionDemandMap' = run.demandMap
                       ELSE UNCHANGED <<mrpCalculatedData, allWeekColumns, weekColumns,
                                        productionDemandMap>>
           ELSE /\ alert' = "Data Load Failed"
                /\ UNCHANGED <<mrpCalculatedData, allWeekColumns, weekColumns,
                               productionDemandMap>>
        /\ isLoading' = FALSE
        /\ pending' = Remove(pending, i)
        /\ finished' = [id |-> pending[i].id, alert |-> alert']
        /\ UNCHANGED <<selectedYear, startWeek, endWeek, startWeekText, endWeekText,
                       started, requests>>
        /\ UNCHANGED <<walkVars, callVars, loads>>

InitPage ==
    /\ inputs = NoInputs
    /\ selectedYear = NatText(WalkYear)
    /\ startWeek = DefaultStartWeek
    /\ endWeek = DefaultEndWeek
    /\ EngineStart

NextPage ==
    \/ ChangeStartWeek
    \/ ChangeEndWeek
    \/ BlurStartWeek
    \/ BlurEndWeek
    \/ EnterStartWeek
    \/ EnterEndWeek
    \/ ClickCalculate
    \/ FetchAllDataFinish

SpecPage == InitPage /\ [][NextPage]_vars

----------------------------------------------------------------------------
(* One run followed load by load: fetchAllData over its five
   fetchDataSource calls *)

MaxLoadRuns == 1

\* the file each source holds on the backend and in the local copy
DocumentOf(s) ==
    CASE s = "bom" -> WindowBom
      [] s = "materialMaster" -> EngineMaterialMaster
      [] s = "idp" -> PageIdp
      [] s = "supplierDetails" -> EngineSupplierDetails
      [] OTHER -> WalkWeekPlan

\* the local copies safeLoadLastParsed may find for a source
LocalCopies(s) == {NullDoc, DocumentOf(s)}

\* fetchAllData up to its await: the five calls of fetchDataSource, each up
\* to its own first await (loadingStatus 'loading', filesApi.list pending)
StartLoadRun ==
    /\ ~isLoading
    /\ weekValidation.isValid
    /\ pending = <<>>
    /\ started < MaxLoadRuns
    /\ requests' = requests + 1
    /\ calculateMrp
    /\ loads' = [s \in Sources |-> [pc |-> "list", status |-> "loading",
                                   backend |-> "none", local |-> "none",
                                   res |-> NoResult]]
    /\ UNCHANGED <<inputs, selectedYear, startWeek, endWeek, allWeekColumns,
                   productionDemandMap, alert, startWeekText, endWeekText, finished>>
    /\ UNCHANGED <<walkVars, callVars>>

\* what parsed holds: null, a result with an empty grid, or a document
Kind(doc) == IF doc.isNull THEN "null" ELSE IF HasData(doc) THEN "document" ELSE "empty"

\* mutant: the status is left at 'loading'
SettledLeavesLoading(parsed, local) ==
    LET res == fetchDataSource(Source(parsed, local))
    IN [pc |-> "done", status |-> "loading",
        backend |-> Kind(parsed), local |-> Kind(local),
        res |-> [success |-> res.success, isNull |-> FALSE, data |-> res.data]]

\* the end of fetchDataSource once the backend gave parsed (or nothing): the
\* local copy is read when parsed is null, and the status is set
Settled(parsed, local) ==
    LET res == fetchDataSource(Source(parsed, local))
    IN [pc |-> "done", status |-> IF res.success THEN "success" ELSE "error",
        backend |-> Kind(parsed), local |-> Kind(local),
        res |-> [success |-> res.success, isNull |-> FALSE, data |-> res.data]]

LoadStep(s, next) ==
    /\ loads' = [loads EXCEPT ![s] = next]
    /\ UNCHANGED <<walkVars, engineVars, callVars>>
    /\ UNCHANGED <<startWeekText, endWeekText, isLoading, pending, started, finished,
                   requests>>

\* filesApi.list resolves with a file
ListGivesFile(s) ==
    /\ loads[s].pc = "list"
    /\ LoadStep(s, [loads[s] EXCEPT !.pc = "download"])

\* filesApi.list resolves without a file, or rejects
ListGivesNone(s) ==
    /\ loads[s].pc = "list"
    /\ \E local \in LocalCopies(s) : LoadStep(s, Settled(NullDoc, local))

\* the download resolves and the workbook parses: to the document, or to a
\* result with an empty grid when no sheet is usable
DownloadParses(s) ==
    /\ loads[s].pc = "download"
    /\ \E parsed \in {DocumentOf(s), EmptyDoc} :
           LoadStep(s, Settled(parsed, NullDoc))

\* the download rejects or XLSX.read throws
DownloadFails(s) ==
    /\ loads[s].pc = "download"
    /\ \E local \in LocalCopies(s) : LoadStep(s, Settled(NullDoc, local))

\* mutant: the run goes on as soon as one load has settled
AnySettled == \E s \in Sources : loads[s].pc = "done"

\* Promise.all has resolved: every fetchDataSource has returned
AllSettled == \A s \in Sources : loads[s].pc = "done"

ResultData(s) == IF loads[s].res.isNull THEN NullDoc ELSE loads[s].res.data

\* the data of the five results, as handed to calculateMrpDataInternal
ResultDocuments ==
    [bom |-> ResultData("bom"), materialMaster |-> ResultData("materialMaster"),
     idp |-> ResultData("idp"), supplierDetails |-> ResultData("supplierDetails"),
     weekPlan |-> ResultData("weekPlan")]

\* fetchAllData after its await, to the end of its finally
FetchAllDataResume ==
    /\ pending # <<>>
    /\ AllSettled
    /\ IF \A s \in Sources : loads[s].res.success
       THEN \E run \in {EngineRunOnce(ResultDocuments, pending[1].year,
                                      pending[1].startWeek, pending[1].endWeek)} :
                /\ inputs' = ResultDocuments
                /\ alert' = run.alert
                /\ IF run.published
                   THEN /\ mrpCalculatedData' = Rows(run.mrpData)
                        /\ allWeekColumns' = run.allWeeks
                        /\ weekColumns' = run.selectedWeeks
                        /\ productionDemandMap' = run.demandMap
                   ELSE UNCHANGED <<mrpCalculatedData, allWeekColumns, weekColumns,
                                    productionDemandMap>>
       ELSE /\ alert' = "Data Load Failed"
            /\ UNCHANGED <<inputs, mrpCalculatedData, allWeekColumns, weekColumns,
                           productionDemandMap>>
    /\ isLoading' = FALSE
    /\ pending' = <<>>
    /\ finished' = [id |-> pending[1].id, alert |-> alert']
    /\ UNCHANGED <<selectedYear, startWeek, endWeek, startWeekText, endWeekText,
                   started, requests, loads>>
    /\ UNCHANGED <<walkVars, callVars>>

NextLoad ==
    \/ StartLoadRun
    \/ \E s \in Sources : ListGivesFile(s)
    \/ \E s \in Sources : ListGivesNone(s)
    \/ \E s \in Sources : DownloadParses(s)
    \/ \E s \in Sources : DownloadFails(s)
    \/ FetchAllDataResume

SpecLoad == InitPage /\ [][NextLoad]_vars

\* every backend call settles, and a resolved Promise.all resumes the run
LoadFairness ==
    /\ \A s \in Sources : WF_vars(ListGivesFile(s) \/ ListGivesNone(s))
    /\ \A s \in Sources : WF_vars(DownloadParses(s) \/ DownloadFails(s))
    /\ WF_vars(FetchAllDataResume)

SpecLoadLive == SpecLoad /\ LoadFairness

----------------------------------------------------------------------------
(* calculatePoDate applied on its own *)

PoWeeks == {1, 5, 9, 52, 53}
PoYears == {WalkYear - 1, WalkYear}
PoLeadTimes == {0, 10, 45}
PoQuantities == {-3, 0, 30}

H_Week == Str(<<"W","e","e","k">>)
H_StartDate == Str(<<"S","t","a","r","t"," ","D","a","t","e">>)

\* serial date of 29 Jan 2024, and a day of that year as text
PoSerial == Num(45320)
PoIsoDate == Str(<<"2","0","2","4","-","0","3","-","1","1">>)

\* week plans: none, an empty sheet, and sheets whose rows name week 5 of
\* WalkYear by the period text, by the week text or by the week number, with
\* a serial date, a date text, a blank or a text that is no date
PoWeekPlans ==
    { NullDoc,
      Doc(<<"W","P">>, <<>>),
      Doc(<<"W","P">>, << <<H_Week, H_StartDate>>,
                          <<Str(PeriodText(5, WalkYear)), PoSerial>> >>),
      Doc(<<"W","P">>, << <<H_Week, H_StartDate>>,
                          <<Str(PeriodText(9, WalkYear)), PoIsoDate>>,
                          <<Str(PeriodText(5, WalkYear)), Str(<<>>)>>,
                          <<Str(PeriodText(1, WalkYear)), Str(<<"s","o","o","n">>)>> >>),
      Doc(<<"W","P">>, << <<H_Week, H_StartDate>>,
                          <<Num(5), PoSerial>>,
                          <<Str(<<"0","9">>), PoIsoDate>> >>) }

InitPoDate ==
    /\ \E w \in PoWeeks, y \in PoYears, lead \in PoLeadTimes, qty \in PoQuantities,
          wp \in PoWeekPlans :
           call = [fn |-> "calculatePoDate", weekStr |-> PeriodText(w, y),
                   leadTimeDays |-> lead, mrpQty |-> qty, weekPlan |-> wp]
    /\ result = NoCall
    /\ WalkIdle
    /\ EngineIdle
    /\ PageIdle
    /\ inputs = NoInputs
    /\ selectedYear = NatText(WalkYear)
    /\ startWeek = DefaultStartWeek
    /\ endWeek = DefaultEndWeek

ApplyCalculatePoDate ==
    /\ call.fn = "calculatePoDate"
    /\ result = NoCall
    /\ result' = [fn |-> call.fn,
                  value |-> calculatePoDate(call.weekStr, call.leadTimeDays, call.mrpQty,
                                            call.weekPlan)]
    /\ UNCHANGED <<call, walkVars, engineVars, pageVars>>

NextPoDate == ApplyCalculatePoDate

SpecPoDate == InitPoDate /\ [][NextPoDate]_vars

----------------------------------------------------------------------------
(* buildSupplierDetailsMap applied on its own *)

MaxSdRows == 3

SdHeaders == EngineSupplierDetails.jsonData[1]

\* rows: [material, vendor, vendor lead time, transport time]
SdDataRows ==
    { <<Str(T_A), Str(<<"V","1">>), Num(7), Num(3)>>,
      <<Str(T_A), Str(<<"V","2">>), Num(2), Num(8)>>,
      <<Str(<<" ","A">>), Str(<<"V","3">>), Str(<<"5">>), Num(0)>>,
      <<Str(T_A), Str(<<"V","4">>), Str(<<"x">>), Num(12)>>,
      <<Str(T_B), Str(<<"V","1">>), Num(1), Num(1)>>,
      <<Str(<<>>), Str(<<"V","5">>), Num(0), Num(0)>> }

InitSupplier ==
    /\ \E rows \in SeqsUpTo(SdDataRows, MaxSdRows) :
           call = [fn |-> "buildSupplierDetailsMap", headers |-> SdHeaders, rows |-> rows]
    /\ result = NoCall
    /\ WalkIdle
    /\ EngineIdle
    /\ PageIdle
    /\ inputs = NoInputs
    /\ selectedYear = NatText(WalkYear)
    /\ startWeek = DefaultStartWeek
    /\ endWeek = DefaultEndWeek

ApplyBuildSupplierDetailsMap ==
    /\ call.fn = "buildSupplierDetailsMap"
    /\ result = NoCall
    /\ result' = [fn |-> call.fn, value |-> buildSupplierDetailsMap(call.headers, call.rows)]
    /\ UNCHANGED <<call, walkVars, engineVars, pageVars>>

NextSupplier == ApplyBuildSupplierDetailsMap

SpecSupplier == InitSupplier /\ [][NextSupplier]_vars

----------------------------------------------------------------------------
(* buildMaterialMasterMap applied on its own *)

\* a second row, of material B, that may follow the row of A
MmRowOfB == <<Str(T_B), Num(5), Str(<<>>), Num(0), Str(<<"1","2">>), Num(3)>>

\* a second row of material A, with other quantities
MmRowOfAAgain == <<Str(<<"A"," ">>), Num(1), Num(2), Num(3), Num(4), Num(6)>>

InitMaterialMaster ==
    /\ \E mpq \in MpqCells, moq \in MoqCells, reorder \in ReorderCells,
          instock \in InstockCells, pendingPo \in PendingPoCells,
          more \in {<<>>, <<MmRowOfB>>, <<MmRowOfAAgain>>} :
           call = [fn |-> "buildMaterialMasterMap", headers |-> MmHeaders,
                   rows |-> <<<<Str(T_A), mpq, moq, reorder, instock, pendingPo>>>> \o more]
    /\ result = NoCall
    /\ WalkIdle
    /\ EngineIdle
    /\ PageIdle
    /\ inputs = NoInputs
    /\ selectedYear = NatText(WalkYear)
    /\ startWeek = DefaultStartWeek
    /\ endWeek = DefaultEndWeek

ApplyBuildMaterialMasterMap ==
    /\ call.fn = "buildMaterialMasterMap"
    /\ result = NoCall
    /\ result' = [fn |-> call.fn, value |-> buildMaterialMasterMap(call.headers, call.rows)]
    /\ UNCHANGED <<call, walkVars, engineVars, pageVars>>

NextMaterialMaster == ApplyBuildMaterialMasterMap

SpecMaterialMaster == InitMaterialMaster /\ [][NextMaterialMaster]_vars

----------------------------------------------------------------------------
(* Sheet selection: scoreSheetByType and parseExcelArrayBuffer *)

\* the keywords of the scores
K_bom == <<"b","o","m">>
K_material == <<"m","a","t","e","r","i","a","l">>
K_master == <<"m","a","s","t","e","r">>
K_mpq == <<"m","p","q">>
K_moq == <<"m","o","q">>
K_reorder == <<"r","e","o","r","d","e","r">>
K_instock == <<"i","n","s","t","o","c","k">>
K_in_stock == <<"i","n"," ","s","t","o","c","k">>
K_pending_po == <<"p","e","n","d","i","n","g"," ","p","o">>
K_supplier == <<"s","u","p","p","l","i","e","r">>
K_vendor == <<"v","e","n","d","o","r">>
K_lead_dash_time == <<"l","e","a","d","-","t","i","m","e">>
K_lead_time == <<"l","e","a","d"," ","t","i","m","e">>
K_transport == <<"t","r","a","n","s","p","o","r","t">>
K_week == <<"w","e","e","k">>
K_plan == <<"p","l","a","n">>
K_start_date == <<"s","t","a","r","t"," ","d","a","t","e">>
K_end_date == <<"e","n","d"," ","d","a","t","e">>
K_production == <<"p","r","o","d","u","c","t","i","o","n">>
K_idp == <<"i","d","p">>

MaxScoreRows == 15

\* aoa.slice(0, 15)
ScoredRows(aoa) == SubSeq(aoa, 1, IF Len(aoa) < MaxScoreRows THEN Len(aoa) ELSE MaxScoreRows)

\* has(q): a cell of the scanned rows, normalised, contains q
Has(rows, q) ==
    \E i \in 1..Len(rows) : \E j \in 1..Len(rows[i]) :
        Includes(normalizeHeaderValue(rows[i][j]), q)

\* hasRegex(/^\d{2}\.\d{4}$/)
HasPeriod(rows) ==
    \E i \in 1..Len(rows) : \E j \in 1..Len(rows[i]) :
        IsPeriodText(Trim(StringOf(rows[i][j])))

\* if (cond) s += n
Points(cond, n) == IF cond THEN n ELSE 0

SheetTypes == {"bom", "material_master", "idp", "supplier_details", "week_plan"}

scoreSheetByType(type, sheetName, aoa) ==
    LET rows == ScoredRows(aoa)
        sn == normalizeHeaderValue(Str(sheetName))
    IN CASE type = "bom" ->
              Points(Includes(sn, K_bom), 5) + Points(Has(rows, T_derived), 2)
              + Points(Has(rows, T_child), 3)
              + Points(Has(rows, T_quantity) \/ Has(rows, T_per_kit), 1)
              + Points(Has(rows, T_uom), 1)
         [] type = "material_master" ->
              Points(Includes(sn, K_material), 3) + Points(Includes(sn, K_master), 2)
              + Points(Has(rows, K_mpq), 2) + Points(Has(rows, K_moq), 2)
              + Points(Has(rows, K_reorder), 2)
              + Points(Has(rows, K_instock) \/ Has(rows, K_in_stock), 1)
              + Points(Has(rows, K_pending_po), 1)
         [] type = "supplier_details" ->
              Points(Includes(sn, K_supplier), 4) + Points(Includes(sn, K_vendor), 2)
              + Points(Has(rows, K_vendor), 2)
              + Points(Has(rows, K_lead_dash_time) \/ Has(rows, K_lead_time), 2)
              + Points(Has(rows, K_transport), 1)
         [] type = "week_plan" ->
              Points(Includes(sn, K_week), 4) + Points(Includes(sn, K_plan), 2)
              + Points(Has(rows, K_week), 2) + Points(Has(rows, K_start_date), 2)
              + Points(Has(rows, K_end_date), 1)
         [] OTHER ->
              Points(Includes(sn, K_production), 2) + Points(Includes(sn, K_plan), 2)
              + Points(Includes(sn, K_idp), 4) + Points(Has(rows, T_derived), 2)
              + Points(HasPeriod(rows), 4)

\* a workbook is the sequence of its sheets in SheetNames order; a sheet is
\* its name, whether workbook.Sheets has it, and its array of arrays
Sheet(name, readable, aoa) == [name |-> name, readable |-> readable, aoa |-> aoa]

T_Sheet1 == <<"S","h","e","e","t","1">>

\* mutant: a later sheet with an equal score replaces the best one
BetterSheetOrEqual(score, bestScore) == score >= bestScore

\* mutant: a sheet without any keyword hit is never selected
BetterSheetWithHits(score, bestScore) == score > bestScore /\ score > 0

\* score > bestScore
BetterSheet(score, bestScore) == score > bestScore

\* the forEach over workbook.SheetNames
RECURSIVE BestSheet(_, _, _)
BestSheet(sheets, type, best) ==
    IF sheets = <<>> THEN best
    ELSE LET sh == Head(sheets)
             score == scoreSheetByType(type, sh.name, sh.aoa)
         IN BestSheet(Tail(sheets), type,
                IF ~sh.readable THEN best
                ELSE IF BetterSheet(score, best.bestScore)
                THEN [bestScore |-> score, bestSheetName |-> sh.name,
                      bestJsonData |-> [isNull |-> FALSE, aoa |-> sh.aoa]]
                ELSE best)

parseExcelArrayBuffer(workbook, type) ==
    LET best == BestSheet(workbook, type,
                    [bestScore |-> -1,
                     bestSheetName |-> IF workbook = <<>> THEN T_Sheet1
                                       ELSE workbook[1].name,
                     bestJsonData |-> [isNull |-> TRUE, aoa |-> <<>>]])
    IN Doc(best.bestSheetName, IF best.bestJsonData.isNull THEN <<>>
                               ELSE best.bestJsonData.aoa)

----------------------------------------------------------------------------
(* parseExcelArrayBuffer applied on its own *)

MaxSheets == 3

BomGrid(child) ==
    << <<H_DerivedMaterial, H_ChildPart, H_Quantity, H_Uom>>,
       <<Str(T_P), Str(child), Num(2), Str(<<"E","A">>)>> >>

\* a grid whose header lies below the 15 scanned rows
LateGrid ==
    [i \in 1..MaxScoreRows |-> <<Str(<<"n","o","t","e">>), Num(i)>>]
        \o << <<H_DerivedMaterial, H_ChildPart>> >>

\* the sheets of the workbooks: a BOM under a telling name, two BOMs under
\* plain names (equal scores), a plan, a week plan, a sheet without any
\* keyword, an empty sheet, a sheet whose keywords lie too low, and a sheet
\* workbook.Sheets does not hold
WorkbookSheets ==
    { Sheet(<<"B","O","M">>, TRUE, BomGrid(T_A)),
      Sheet(T_Sheet1, TRUE, BomGrid(T_B)),
      Sheet(<<"S","h","e","e","t","2">>, TRUE, BomGrid(T_A)),
      Sheet(<<"I","D","P","_","2","0","2","4">>, TRUE, PageIdp.jsonData),
      Sheet(<<"W","e","e","k"," ","P","l","a","n">>, TRUE, WalkWeekPlan.jsonData),
      Sheet(<<"D","a","t","a">>, TRUE, << <<Str(<<"x">>), Num(1)>> >>),
      Sheet(<<"E","m","p","t","y">>, TRUE, <<>>),
      Sheet(<<"L","a","t","e">>, TRUE, LateGrid),
      Sheet(<<"G","o","n","e">>, FALSE, <<>>) }

\* sheet names are unique within a workbook
Workbooks ==
    {w \in SeqsUpTo(WorkbookSheets, MaxSheets) :
        \A i \in 1..Len(w), j \in 1..Len(w) : i # j => w[i].name # w[j].name}

InitSheet ==
    /\ \E workbook \in Workbooks, type \in SheetTypes :
           call = [fn |-> "parseExcelArrayBuffer", workbook |-> workbook, type |-> type]
    /\ result = NoCall
    /\ WalkIdle
    /\ EngineIdle
    /\ PageIdle
    /\ inputs = NoInputs
    /\ selectedYear = NatText(WalkYear)
    /\ startWeek = DefaultStartWeek
    /\ endWeek = DefaultEndWeek

ApplyParseExcelArrayBuffer ==
    /\ call.fn = "parseExcelArrayBuffer"
    /\ result = NoCall
    /\ result' = [fn |-> call.fn, value |-> parseExcelArrayBuffer(call.workbook, call.type)]
    /\ UNCHANGED <<call, walkVars, engineVars, pageVars>>

NextSheet == ApplyParseExcelArrayBuffer

SpecSheet == InitSheet /\ [][NextSheet]_vars

----------------------------------------------------------------------------
(* findHeaderRowIndex applied on its own *)

MaxLeadRows == 11

\* the rows above the header: data, or a row with only one of the two words
LeadRows ==
    { <<Str(T_P), Str(T_A), Num(2)>>,
      <<H_ChildPart, H_Quantity>>,
      <<H_DerivedMaterial, Str(<<>>)>> }

\* header rows: the canonical one, both words in one cell, the words in
\* capitals between blanks and underscores, and no header row at all
HeaderRows ==
    { << <<H_DerivedMaterial, H_ChildPart, H_Quantity>> >>,
      << <<Str(<<"D","e","r","i","v","e","d","/","C","h","i","l","d">>), H_Quantity>> >>,
      << <<Str(<<" ","C","H","I","L","D","_","P","A","R","T"," ">>), Num(1),
           Str(<<"D","E","R","I","V","E","D"," "," ","M","A","T","L">>)>> >>,
      <<>> }

\* the rows below: none, or data followed by a second header row
RowsBelow ==
    { <<>>,
      << <<Str(T_P), Str(T_A), Num(2)>>, <<H_DerivedMaterial, H_ChildPart>> >> }

InitHeaderRow ==
    /\ \E k \in 0..MaxLeadRows, lead \in LeadRows, header \in HeaderRows,
          below \in RowsBelow :
           call = [fn |-> "findHeaderRowIndex",
                   rows |-> [i \in 1..k |-> lead] \o header \o below]
    /\ result = NoCall
    /\ WalkIdle
    /\ EngineIdle
    /\ PageIdle
    /\ inputs = NoInputs
    /\ selectedYear = NatText(WalkYear)
    /\ startWeek = DefaultStartWeek
    /\ endWeek = DefaultEndWeek

ApplyFindHeaderRowIndex ==
    /\ call.fn = "findHeaderRowIndex"
    /\ result = NoCall
    /\ result' = [fn |-> call.fn, value |-> findHeaderRowIndex(call.rows)]
    /\ UNCHANGED <<call, walkVars, engineVars, pageVars>>

NextHeaderRow == ApplyFindHeaderRowIndex

SpecHeaderRow == InitHeaderRow /\ [][NextHeaderRow]_vars

----------------------------------------------------------------------------
(* findColumnIndex applied on its own, with the child-part predicates *)

MaxHeaderCols == 3

HeaderCells ==
    { H_ChildPart, H_Child_Part, H_Quantity, Str(<<>>), Num(5),
      Str(<<"C","o","m","p","o","n","e","n","t">>),
      Str(<<" ","c","h","i","l","d"," ">>),
      Str(<<"C","o","m","p"," ","P","a","r","t">>) }

InitColumn ==
    /\ \E headers \in SeqsUpTo(HeaderCells, MaxHeaderCols) :
           call = [fn |-> "findColumnIndex", headers |-> headers]
    /\ result = NoCall
    /\ WalkIdle
    /\ EngineIdle
    /\ PageIdle
    /\ inputs = NoInputs
    /\ selectedYear = NatText(WalkYear)
    /\ startWeek = DefaultStartWeek
    /\ endWeek = DefaultEndWeek

ApplyFindColumnIndex ==
    /\ call.fn = "findColumnIndex"
    /\ result = NoCall
    /\ result' = [fn |-> call.fn, value |-> ChildPartColumn(call.headers)]
    /\ UNCHANGED <<call, walkVars, engineVars, pageVars>>

NextColumn == ApplyFindColumnIndex

SpecColumn == InitColumn /\ [][NextColumn]_vars

----------------------------------------------------------------------------
(* Claims about the period walk (SpecWalk) *)

RECURSIVE SumSeq(_)
SumSeq(s) == IF s = <<>> THEN 0 ELSE Head(s) + SumSeq(Tail(s))

\* the i-th visited period
QtyAt(i) == demandByWeek[i].v
AdjAt(i) == adjustedTrace[i]
ReqAt(i) == weeklyMrpQty[i].v
ExcessBefore(i) == excessTrace[i]
ExcessAfter(i) == excessTrace[i + 1]

\* C1: for every visited period, requiredQty follows the priority order
\* reorder point, then MOQ, then MPQ rounding, then the demand itself; the two
\* scenarios of the spec give 100 and 75; adjustedDemand = 0 gives 0.
C1_LotSizingPriority ==
    \A i \in 1..visited :
        LET adj == AdjAt(i)
            req == ReqAt(i)
            r == mmInfo.reorder
            q == mmInfo.moq
            p == mmInfo.mpq
        IN /\ adj >= 0
           /\ (adj = 0) => (req = 0)
           /\ (adj > 0 /\ r > 0) => (req = r + adj)
           /\ (adj > 0 /\ r <= 0 /\ q > adj) => (req = q)
           /\ (adj > 0 /\ r <= 0 /\ q <= adj /\ p > 0) =>
                  (req % p = 0 /\ req >= adj /\ req - p < adj)
           /\ (adj > 0 /\ r <= 0 /\ q <= adj /\ p <= 0) => (req = adj)
           /\ (r = 0 /\ q = 100 /\ p = 0 /\ adj = 40) => (req = 100)
           /\ (r = 0 /\ q = 0 /\ p = 25 /\ adj = 51) => (req = 75)

\* the MPQ scenario happened, and so did the MOQ scenario with an MPQ set
C1_Witness ==
    /\ visited >= 2
    /\ mmInfo.reorder = 0 /\ mmInfo.moq = 30 /\ mmInfo.mpq = 25
    /\ AdjAt(1) = 20 /\ ReqAt(1) = 30
    /\ AdjAt(2) = 51 /\ ReqAt(2) = 75

\* C2: with a reorder point > 0 and adjustedDemand > 0, requiredQty is
\* reorder + adjustedDemand whatever moq and mpq are; 50/100/10/20 gives 70.
C2_ReorderPrecedence ==
    \A i \in 1..visited :
        /\ (mmInfo.reorder > 0 /\ AdjAt(i) > 0) => (ReqAt(i) = mmInfo.reorder + AdjAt(i))
        /\ (mmInfo.reorder = 50 /\ mmInfo.moq = 100 /\ mmInfo.mpq = 10 /\ AdjAt(i) = 20)
               => (ReqAt(i) = 70)

C2_Witness ==
    /\ visited >= 1
    /\ mmInfo.reorder = 50 /\ mmInfo.moq = 100 /\ mmInfo.mpq = 10
    /\ AdjAt(1) = 20 /\ ReqAt(1) = 70

\* C3 as stated: with mpq > 0, reorder = 0 and adjustedDemand > 0, requiredQty
\* is a multiple of mpq and at least adjustedDemand, for every moq.
C3_AlwaysMultipleOfMpq ==
    \A i \in 1..visited :
        (mmInfo.mpq > 0 /\ mmInfo.reorder = 0 /\ AdjAt(i) > 0)
            => (ReqAt(i) % mmInfo.mpq = 0 /\ ReqAt(i) >= AdjAt(i))

\* C3 amended: with mpq > 0, reorder = 0 and adjustedDemand > 0, requiredQty
\* is at least adjustedDemand; it is a multiple of mpq when moq <= adjustedDemand,
\* and it is moq itself (multiple or not) when moq > adjustedDemand.
C3_MultipleOfMpqUnlessMoq ==
    \A i \in 1..visited :
        (mmInfo.mpq > 0 /\ mmInfo.reorder = 0 /\ AdjAt(i) > 0)
            => /\ ReqAt(i) >= AdjAt(i)
               /\ (mmInfo.moq <= AdjAt(i)) => (ReqAt(i) % mmInfo.mpq = 0)
               /\ (mmInfo.moq > AdjAt(i)) => (ReqAt(i) = mmInfo.moq)

\* a period was rounded up to a multiple of mpq with an MOQ below the demand
C3_Witness ==
    /\ visited >= 1
    /\ mmInfo.mpq = 25 /\ mmInfo.reorder = 0 /\ mmInfo.moq = 30
    /\ AdjAt(1) = 40 /\ ReqAt(1) = 50

\* C4: the netting step: remainingExcess starts at instock + pendingPo; a
\* period whose qty the excess covers has adjustedDemand 0 and lowers the
\* excess by qty; any other period has adjustedDemand = qty - remainingExcess
\* and leaves the excess at 0.
C4_NettingStep ==
    /\ excessTrace[1] = mmInfo.instock + mmInfo.pendingPo
    /\ \A i \in 1..visited :
           QtyAt(i) > 0 =>
               IF ExcessBefore(i) >= QtyAt(i)
               THEN AdjAt(i) = 0 /\ ExcessAfter(i) = ExcessBefore(i) - QtyAt(i)
               ELSE AdjAt(i) = QtyAt(i) - ExcessBefore(i) /\ ExcessAfter(i) = 0

\* the part of C4 the code does satisfy: every step that starts with an excess >= 0
C4_NettingStepFromNonNegative ==
    /\ excessTrace[1] = mmInfo.instock + mmInfo.pendingPo
    /\ \A i \in 1..visited :
           (QtyAt(i) > 0 /\ ExcessBefore(i) >= 0) =>
               IF ExcessBefore(i) >= QtyAt(i)
               THEN AdjAt(i) = 0 /\ ExcessAfter(i) = ExcessBefore(i) - QtyAt(i)
               ELSE AdjAt(i) = QtyAt(i) - ExcessBefore(i) /\ ExcessAfter(i) = 0

ConsumedSoFar == SumSeq([i \in 1..visited |-> QtyAt(i) - AdjAt(i)])

\* C5: after any prefix of the walk the excess consumed so far is at most
\* excessQty, and consumed + remainingExcess = excessQty.
C5_ExcessConservation ==
    visited >= 1 =>
        /\ ConsumedSoFar <= excessQty
        /\ ConsumedSoFar + remainingExcess = excessQty

\* the part of C5 the code does satisfy
C5_ConservationFromNonNegative ==
    /\ ConsumedSoFar + remainingExcess = excessQty
    /\ excessQty >= 0 => ConsumedSoFar <= excessQty

\* C6: remainingExcess never rises from one period to the next and is never
\* negative.
C6_ExcessNeverNegative ==
    visited >= 1 =>
        \A i \in 1..Len(excessTrace) :
            /\ excessTrace[i] >= 0
            /\ i > 1 => excessTrace[i] <= excessTrace[i - 1]

\* the part of C6 the code does satisfy
C6_NonIncreasing ==
    /\ remainingExcess = excessTrace[Len(excessTrace)]
    /\ \A i \in 2..Len(excessTrace) : excessTrace[i] <= excessTrace[i - 1]
    /\ excessQty >= 0 => \A i \in 1..Len(excessTrace) : excessTrace[i] >= 0

----------------------------------------------------------------------------
(* Claims about one computation (SpecExplode, SpecWindow) *)

\* the computation has run to its end and published its result
Published == alert = "Calculation Complete"

OutputRows == mrpCalculatedData.rows

BomSheet == inputs.bom.jsonData
BomHeaderCells == BomSheet[findHeaderRowIndex(BomSheet) + 1]
BomDataBelowHeader == SliceFrom(BomSheet, findHeaderRowIndex(BomSheet) + 1)
IdpHeaderCells == inputs.idp.jsonData[1]
IdpDataBelowHeader == Tail(inputs.idp.jsonData)

SetOfSeq(s) == {s[i] : i \in 1..Len(s)}

\* the sum of f over S
RECURSIVE SumOver(_, _)
SumOver(f, S) ==
    IF S = {} THEN 0
    ELSE LET x == CHOOSE y \in S : TRUE IN f[x] + SumOver(f, S \ {x})

\* the BOM data rows as edges. listed is the child material read in the
\* column the output's materials are listed from, exploded the child
\* material as the explosion reads it
EdgesOf(rows, cols, childPartIdx) ==
    [i \in 1..Len(rows) |->
        [parent   |-> Trim(StringOf(CellAt(rows[i], cols.bomDerivedMaterialIdx))),
         listed   |-> Trim(StringOf(CellAt(rows[i], childPartIdx))),
         exploded |-> Trim(StringOf(CellAt(rows[i], cols.bomChildPartIdx))),
         quantity |-> toNumber(CellAt(rows[i], cols.bomQtyIdx))]]

\* the plan's data rows: the parent and the quantity produced under every
\* column
PlanOf(rows, cols, width) ==
    [i \in 1..Len(rows) |->
        [parent   |-> Trim(StringOf(CellAt(rows[i], cols.idpDerivedMaterialIdx))),
         produced |-> [k \in 1..width |-> toNumber(CellAt(rows[i], k - 1))]]]

\* the header cells of the plan as texts, blanks around them removed
PlanHeaderTexts == [k \in 1..Len(IdpHeaderCells) |-> Trim(StringOf(IdpHeaderCells[k]))]

Edges ==
    EdgesOf(BomDataBelowHeader, ExplodeColumns(IdpHeaderCells, BomHeaderCells),
            ChildPartColumn(BomHeaderCells))

Plan ==
    PlanOf(IdpDataBelowHeader, ExplodeColumns(IdpHeaderCells, BomHeaderCells),
           Len(IdpHeaderCells))

\* the contributions the claim counts for child c in period p: one per plan
\* row, BOM row and column headed p; children[i] is the child of edge i
Contributions(c, p, edges, children, plan, heads) ==
    LET T == (1..Len(plan)) \X (1..Len(edges)) \X {k \in 1..Len(heads) : heads[k] = p}
        f == [t \in T |->
                 IF /\ edges[t[2]].parent # <<>>
                    /\ children[t[2]] # <<>>
                    /\ children[t[2]] = c
                    /\ edges[t[2]].quantity > 0
                    /\ edges[t[2]].parent = plan[t[1]].parent
                    /\ plan[t[1]].produced[t[3]] > 0
                 THEN plan[t[1]].produced[t[3]] * edges[t[2]].quantity
                 ELSE 0]
    IN SumOver(f, T)

Listed(edges) == [i \in 1..Len(edges) |-> edges[i].listed]
Exploded(edges) == [i \in 1..Len(edges) |-> edges[i].exploded]

GrossDemand(c, p) == MapGet(MapGet(productionDemandMap, c, <<>>), p, 0)

Scale == 3

\* the plan with every production quantity multiplied by k
ScaledPlan(k) ==
    LET keep == ExplodeColumns(IdpHeaderCells, BomHeaderCells).idpDerivedMaterialIdx IN
    [i \in 1..Len(IdpDataBelowHeader) |->
        [j \in 1..Len(IdpDataBelowHeader[i]) |->
            IF j - 1 = keep THEN IdpDataBelowHeader[i][j]
            ELSE Num(k * toNumber(IdpDataBelowHeader[i][j]))]]

DemandScaled(scaled) ==
    /\ MapKeys(scaled) = MapKeys(productionDemandMap)
    /\ \A c \in SetOfSeq(MapKeys(scaled)), p \in SetOfSeq(weekColumns) :
           MapGet(MapGet(scaled, c, <<>>), p, 0) = Scale * GrossDemand(c, p)

ScalesLinearly ==
    DemandScaled(buildProductionDemandMap(IdpHeaderCells, ScaledPlan(Scale),
                                          BomHeaderCells, BomDataBelowHeader, weekColumns))

DemandIsSum(edges, children, plan, heads) ==
    \A c \in SetOfSeq(children) \ {<<>>}, p \in SetOfSeq(weekColumns) :
        GrossDemand(c, p) = Contributions(c, p, edges, children, plan, heads)

\* C7: for every child material c of the BOM and every selected period p,
\* the gross demand of c in p is the sum of producedQty * quantity over the
\* plan rows and BOM rows with matching non-blank parent, child c, positive
\* quantity and positive production; and multiplying every production
\* quantity by Scale multiplies every demand by Scale.
C7_BomExplosion ==
    Published =>
        /\ DemandIsSum(Edges, Listed(Edges), Plan, PlanHeaderTexts)
        /\ ScalesLinearly

\* what the explosion does compute: the sum over the child column it
\* resolves for itself
C7_ExplosionOverItsOwnColumn ==
    Published =>
        /\ DemandIsSum(Edges, Exploded(Edges), Plan, PlanHeaderTexts)
        /\ SetOfSeq(MapKeys(productionDemandMap)) \subseteq SetOfSeq(Exploded(Edges)) \ {<<>>}
        /\ ScalesLinearly

\* the position of the first data row whose child material is m
FirstRowOf(m, children) ==
    CHOOSE i \in 1..Len(children) :
        /\ children[i] = m
        /\ \A j \in 1..(i - 1) : children[j] # m

OneRowPerChild(rows, children) ==
    /\ {rows[i].material : i \in 1..Len(rows)} = SetOfSeq(children) \ {<<>>}
    /\ \A i, j \in 1..Len(rows) :
           i < j => /\ rows[i].material # rows[j].material
                    /\ FirstRowOf(rows[i].material, children)
                           < FirstRowOf(rows[j].material, children)

\* C8: the output has exactly one row per distinct non-blank trimmed child
\* value of the BOM data rows below the header row, in order of first
\* appearance, with or without demand, and no row for anything else.
C8_OneRowPerBomChild ==
    Published => OneRowPerChild(OutputRows, Listed(Edges))

\* two data rows name the same child (one of them with blanks around it) and
\* the output has the one row, which has no demand
C8_Witness ==
    /\ Published
    /\ Len(BomDataBelowHeader) = 2
    /\ Edges[1].listed = Edges[2].listed
    /\ CellAt(BomDataBelowHeader[1], ChildPartColumn(BomHeaderCells))
           # CellAt(BomDataBelowHeader[2], ChildPartColumn(BomHeaderCells))
    /\ Len(OutputRows) = 1
    /\ OutputRows[1].totalDemand = 0

\* no plan row contributes to material m in any selected period
NoMatchingDemand(m, edges, plan, heads) ==
    \A p \in SetOfSeq(weekColumns) :
        Contributions(m, p, edges, Listed(edges), plan, heads) = 0

\* what the table shows for a period: row.weeklyMrpQty[week] ?? 0 and
\* row.weeklyPoDate[week] ?? '-'
ShownMrpQty(row, p) == MapGet(row.weeklyMrpQty, p, 0)
ShownPoDate(row, p) == MapGet(row.weeklyPoDate, p, PoPlaceholder)

ZeroRow(row) ==
    /\ row.totalDemand = 0
    /\ \A x \in SetOfSeq(row.weeklyMrpQty) : x.v = 0
    /\ \A x \in SetOfSeq(row.weeklyPoDate) : x.v = PoPlaceholder
    /\ \A p \in SetOfSeq(weekColumns) :
           /\ ShownMrpQty(row, p) = 0
           /\ ShownPoDate(row, p) = PoPlaceholder

ZeroRowsWithoutDemand(rows, edges, plan, heads) ==
    \A i \in 1..Len(rows) :
        NoMatchingDemand(rows[i].material, edges, plan, heads) => ZeroRow(rows[i])

\* C9: the row of a BOM child with no matching plan demand in any selected
\* period has totalDemand 0 and, for every selected period, shows quantity 0
\* and PO date "-".
C9_ZeroDemandRow ==
    Published => ZeroRowsWithoutDemand(OutputRows, Edges, Plan, PlanHeaderTexts)

\* a row without demand next to production of another parent: the plan has
\* positive production in a selected period, the material has a parent with
\* a positive quantity, and that parent is not in the plan
C9_Witness ==
    /\ Published
    /\ weekColumns # <<>>
    /\ \E i \in 1..Len(OutputRows) :
           /\ NoMatchingDemand(OutputRows[i].material, Edges, Plan, PlanHeaderTexts)
           /\ ZeroRow(OutputRows[i])
           /\ \E e \in SetOfSeq(Edges) :
                  /\ e.listed = OutputRows[i].material
                  /\ e.parent # <<>>
                  /\ e.quantity > 0
           /\ \E r \in SetOfSeq(Plan), k \in 1..Len(PlanHeaderTexts) :
                  /\ SeqHas(weekColumns, PlanHeaderTexts[k])
                  /\ r.produced[k] > 0

\* two digits, a dot, four digits
IsPeriod(t) ==
    /\ Len(t) = 7
    /\ t[3] = "."
    /\ \A i \in {1, 2, 4, 5, 6, 7} : t[i] \in SetOfSeq(DigitChars)

WeekNumberOf(t) == 10 * DigitVal(t[1]) + DigitVal(t[2])
YearTextOf(t) == SubSeq(t, 4, 7)

\* the elements of s at the positions of S, in the order of s
SubList(s, S) ==
    [k \in 1..Cardinality(S) |->
        s[CHOOSE i \in S : Cardinality({j \in S : j <= i}) = k]]

PeriodsOf(heads) == SubList(heads, {k \in 1..Len(heads) : IsPeriod(heads[k])})

PeriodsInWindow(heads) ==
    SubList(heads, {k \in 1..Len(heads) :
                       /\ IsPeriod(heads[k])
                       /\ YearTextOf(heads[k]) = selectedYear
                       /\ startWeek <= WeekNumberOf(heads[k])
                       /\ WeekNumberOf(heads[k]) <= endWeek})

\* C10: weekColumns (selectedPeriods) is the sub-list, in header order, of
\* the plan's header cells that are periods with the window's year and a week
\* number between startWeek and endWeek inclusive; allWeekColumns (allPeriods)
\* is the sub-list of all header cells that are periods.
C10_PeriodWindow ==
    Published =>
        /\ allWeekColumns = PeriodsOf(PlanHeaderTexts)
        /\ weekColumns = PeriodsInWindow(PlanHeaderTexts)

\* a header with a period below the window, one in its start week that has
\* blanks around it and one on its end week: the last two are selected
C10_Witness ==
    /\ Published
    /\ Len(allWeekColumns) = 3
    /\ Len(weekColumns) = 2
    /\ WeekNumberOf(weekColumns[1]) = startWeek
    /\ WeekNumberOf(weekColumns[2]) = endWeek
    /\ \E k \in 1..Len(IdpHeaderCells) :
           /\ PlanHeaderTexts[k] = weekColumns[1]
           /\ StringOf(IdpHeaderCells[k]) # weekColumns[1]

\* the sum of the material's gross demand over the selected periods
DemandInWindow(m) ==
    SumOver([p \in SetOfSeq(weekColumns) |-> GrossDemand(m, p)], SetOfSeq(weekColumns))

\* the same sum taken from the plan and the BOM, over the columns headed by a
\* selected period only
ContributionsInWindow(m, edges, plan, heads) ==
    SumOver([p \in SetOfSeq(weekColumns) |->
                Contributions(m, p, edges, Exploded(edges), plan, heads)],
            SetOfSeq(weekColumns))

TotalsInWindow(rows, edges, plan, heads) ==
    \A i \in 1..Len(rows) :
        /\ rows[i].totalDemand = DemandInWindow(rows[i].material)
        /\ rows[i].totalDemand = ContributionsInWindow(rows[i].material, edges, plan, heads)

\* C11: in every output row totalDemand is the sum of the material's gross
\* demand over the periods of selectedPeriods; what the plan produces in a
\* period outside selectedPeriods adds nothing to it.
C11_TotalDemandInWindow ==
    Published => TotalsInWindow(OutputRows, Edges, Plan, PlanHeaderTexts)

\* a row with demand in two selected periods whose parent is also produced
\* in a period outside the window
C11_Witness ==
    /\ Published
    /\ \E i \in 1..Len(OutputRows) :
           /\ Cardinality({p \in SetOfSeq(weekColumns) :
                              GrossDemand(OutputRows[i].material, p) > 0}) >= 2
           /\ OutputRows[i].totalDemand = DemandInWindow(OutputRows[i].material)
           /\ \E e \in SetOfSeq(Edges), r \in SetOfSeq(Plan), k \in 1..Len(PlanHeaderTexts) :
                  /\ e.exploded = OutputRows[i].material
                  /\ e.quantity > 0
                  /\ e.parent = r.parent
                  /\ IsPeriod(PlanHeaderTexts[k])
                  /\ ~SeqHas(weekColumns, PlanHeaderTexts[k])
                  /\ r.produced[k] > 0

----------------------------------------------------------------------------
(* Claims about PO dates (SpecWalk, SpecPoDate) *)

\* C13: a period whose requiredQty is <= 0 has the PO date "-", whatever the
\* lead time and the week plan are.
C13_PoDatePlaceholder ==
    \A i \in 1..visited : ReqAt(i) <= 0 => weeklyPoDate[i].v = PoPlaceholder

\* a first period covered by the excess, with a lead time of 10 days and a
\* week plan that has a start date for the period, and a second period
\* that is ordered and dated
C13_Witness ==
    /\ visited = 2
    /\ ReqAt(1) = 0
    /\ weeklyPoDate[1].v = PoPlaceholder
    /\ sdInfo.totalLeadTime = 10
    /\ WeekPlanDate(weeklyPoDate[1].k, weekPlan).valid
    /\ ReqAt(2) > 0
    /\ weeklyPoDate[2].v # PoPlaceholder

Applied == result # NoCall

IsLeapYear(y) == (y % 4 = 0 /\ y % 100 # 0) \/ y % 400 = 0

DaysInMonth(y, m) ==
    IF m = 2 THEN (IF IsLeapYear(y) THEN 29 ELSE 28)
    ELSE IF m \in {4, 6, 9, 11} THEN 30 ELSE 31

YearLength(y) == IF IsLeapYear(y) THEN 366 ELSE 365

FirstOfNextMonth(d) ==
    IF d.month < 12 THEN [year |-> d.year, month |-> d.month + 1, day |-> 1]
    ELSE [year |-> d.year + 1, month |-> 1, day |-> 1]

LastOfPreviousMonth(d) ==
    IF d.month > 1
    THEN [year |-> d.year, month |-> d.month - 1, day |-> DaysInMonth(d.year, d.month - 1)]
    ELSE [year |-> d.year - 1, month |-> 12, day |-> 31]

\* the calendar day n days after d (before it when n < 0), stepping over
\* whole years and months
RECURSIVE DayPlus(_, _)
DayPlus(d, n) ==
    IF n >= 0
    THEN IF d.month = 1 /\ d.day = 1 /\ n >= YearLength(d.year)
         THEN DayPlus([year |-> d.year + 1, month |-> 1, day |-> 1], n - YearLength(d.year))
         ELSE IF d.day + n <= DaysInMonth(d.year, d.month)
         THEN [d EXCEPT !.day = d.day + n]
         ELSE DayPlus(FirstOfNextMonth(d), n - (DaysInMonth(d.year, d.month) - d.day + 1))
    ELSE IF d.day + n >= 1
         THEN [d EXCEPT !.day = d.day + n]
         ELSE DayPlus(LastOfPreviousMonth(d), n + d.day)

TwoDigits(n) == <<DigitChars[((n \div 10) % 10) + 1], DigitChars[(n % 10) + 1]>>

\* DD-Mon-YY
DayText(d) ==
    TwoDigits(d.day) \o <<"-">> \o MonthNames[d.month] \o <<"-">> \o TwoDigits(d.year % 100)

PeriodWeek(t) == 10 * DigitVal(t[1]) + DigitVal(t[2])
PeriodYear(t) ==
    1000 * DigitVal(t[4]) + 100 * DigitVal(t[5]) + 10 * DigitVal(t[6]) + DigitVal(t[7])

\* the cell names the period: by its text, by its week as text or as number
NamesPeriod(cell, t) ==
    \/ cell = Str(t)
    \/ cell = Str(SubSeq(t, 1, 2))
    \/ cell = Num(PeriodWeek(t))

\* the cell holds a start date: a serial number or a YYYY-MM-DD text
IsStartDate(cell) ==
    \/ cell.t = "num"
    \/ /\ cell.t = "str"
       /\ Len(cell.s) = 10
       /\ cell.s[5] = "-" /\ cell.s[8] = "-"
       /\ \A i \in {1, 2, 3, 4, 6, 7, 9, 10} : cell.s[i] \in SetOfSeq(DigitChars)

\* the data rows of the week plan, each as [week, startDate], read in the
\* first two columns (where the sheets of PoWeekPlans have them)
WeekPlanRows(wp) ==
    IF wp.isNull \/ wp.jsonData = <<>> THEN <<>>
    ELSE [i \in 1..(Len(wp.jsonData) - 1) |->
             [week |-> wp.jsonData[i + 1][1], startDate |-> wp.jsonData[i + 1][2]]]

\* the week plan gives no start date for the period
NoStartDateFor(t, wp) ==
    \A r \in SetOfSeq(WeekPlanRows(wp)) : ~(NamesPeriod(r.week, t) /\ IsStartDate(r.startDate))

FallbackText(t, leadTimeDays) ==
    DayText(DayPlus([year |-> PeriodYear(t), month |-> 1, day |-> 1],
                    PeriodWeek(t) * 7 - leadTimeDays))

T_05_2024 == <<"0","5",".","2","0","2","4">>
T_05_Feb_24 == <<"0","5","-","F","e","b","-","2","4">>

\* C14: with requiredQty > 0 and no start date for the period in the week
\* plan, the PO date is January 1 of the period's year plus weekNumber * 7
\* days minus leadTimeDays days, written DD-Mon-YY; period 05.2024 with
\* leadTimeDays = 0 gives 05-Feb-24.
C14_PoDateFallback ==
    (Applied /\ call.fn = "calculatePoDate" /\ call.mrpQty > 0
        /\ NoStartDateFor(call.weekStr, call.weekPlan)) =>
        /\ result.value = FallbackText(call.weekStr, call.leadTimeDays)
        /\ (call.weekStr = T_05_2024 /\ call.leadTimeDays = 0) => result.value = T_05_Feb_24

\* the example of the claim, without a week-plan document
C14_Witness ==
    /\ Applied
    /\ call.fn = "calculatePoDate"
    /\ call.weekStr = T_05_2024
    /\ call.leadTimeDays = 0
    /\ call.mrpQty > 0
    /\ call.weekPlan = NullDoc
    /\ result.value = T_05_Feb_24

\* the day a start-date cell stands for; a serial number counts days from
\* 30 Dec 1899, which makes 1 Jan 2000 the serial 36526
StartDay(cell) ==
    IF cell.t = "num"
    THEN DayPlus([year |-> 2000, month |-> 1, day |-> 1], cell.n - 36526)
    ELSE [year  |-> 1000 * DigitVal(cell.s[1]) + 100 * DigitVal(cell.s[2])
                        + 10 * DigitVal(cell.s[3]) + DigitVal(cell.s[4]),
          month |-> 10 * DigitVal(cell.s[6]) + DigitVal(cell.s[7]),
          day   |-> 10 * DigitVal(cell.s[9]) + DigitVal(cell.s[10])]

\* the week-number cell equals the week component of the period
NamesWeek(cell, t) == cell = Str(SubSeq(t, 1, 2)) \/ cell = Num(PeriodWeek(t))

\* C20: with a week plan and requiredQty > 0, the PO date is counted back
\* from the start date of the week-plan row whose week-number cell equals the
\* week component of the period; the fallback rule is used only when there is
\* no such row or its start date is blank or no date.
C20_WeekPlanLookup ==
    (Applied /\ call.fn = "calculatePoDate" /\ call.mrpQty > 0) =>
        \A r \in SetOfSeq(WeekPlanRows(call.weekPlan)) :
            (NamesWeek(r.week, call.weekStr) /\ IsStartDate(r.startDate)) =>
                result.value = DayText(DayPlus(StartDay(r.startDate), 0 - call.leadTimeDays))

\* what the lookup does: the row is found when its week cell is the whole
\* period text
C20_LookupByPeriodText ==
    (Applied /\ call.fn = "calculatePoDate" /\ call.mrpQty > 0) =>
        \A r \in SetOfSeq(WeekPlanRows(call.weekPlan)) :
            (r.week = Str(call.weekStr) /\ IsStartDate(r.startDate)) =>
                result.value = DayText(DayPlus(StartDay(r.startDate), 0 - call.leadTimeDays))

----------------------------------------------------------------------------
(* Claims about the lookups (SpecSupplier, SpecWalk) *)

\* a supplier row as the claim reads it: the material code without the
\* blanks around it and the two lead times of columns three and four
SupplierRow(r) ==
    [material |-> Trim(StringOf(r[1])),
     vendor |-> Trim(StringOf(r[2])),
     vendorLeadTime |-> toNumber(r[3]),
     transportTime |-> toNumber(r[4])]

SupplierRowsOf(m) ==
    {r \in {SupplierRow(call.rows[i]) : i \in 1..Len(call.rows)} : r.material = m}

KeptEntry(m) == MapGet(result.value, m, SdDefault)

\* C15: for every material of the supplier rows, the entry kept has
\* totalLeadTime = vendorLeadTime + transportTime, is the entry of one of the
\* material's rows, and no row of the material has a smaller total; the rows
\* come in every order.
C15_MinimumLeadTimeKept ==
    (Applied /\ call.fn = "buildSupplierDetailsMap") =>
        /\ SetOfSeq(MapKeys(result.value))
               = {SupplierRow(call.rows[i]).material : i \in 1..Len(call.rows)} \ {<<>>}
        /\ \A m \in SetOfSeq(MapKeys(result.value)) :
               /\ KeptEntry(m).totalLeadTime
                      = KeptEntry(m).vendorLeadTime + KeptEntry(m).transportTime
               /\ \E r \in SupplierRowsOf(m) :
                      /\ r.vendor = KeptEntry(m).vendor
                      /\ r.vendorLeadTime = KeptEntry(m).vendorLeadTime
                      /\ r.transportTime = KeptEntry(m).transportTime
               /\ \A r \in SupplierRowsOf(m) :
                      KeptEntry(m).totalLeadTime <= r.vendorLeadTime + r.transportTime

\* three rows of material A with totals 10, 5 and 12, the smallest in the
\* middle: the entry of 5 days is kept
C15_Witness ==
    /\ Applied
    /\ call.fn = "buildSupplierDetailsMap"
    /\ Len(call.rows) = 3
    /\ \A i \in 1..3 : SupplierRow(call.rows[i]).material = T_A
    /\ SupplierRow(call.rows[1]).vendorLeadTime + SupplierRow(call.rows[1]).transportTime = 10
    /\ SupplierRow(call.rows[2]).vendorLeadTime + SupplierRow(call.rows[2]).transportTime = 5
    /\ SupplierRow(call.rows[3]).vendorLeadTime + SupplierRow(call.rows[3]).transportTime = 12
    /\ KeptEntry(T_A).totalLeadTime = 5
    /\ KeptEntry(T_A).vendor = <<"V","3">>

\* C16: every entry of the material-master lookup has mpq, moq, reorder
\* point, on-hand and pending-PO quantities >= 0, whatever the cells hold
\* (numbers, numeric texts, blanks, text), so excessQty = on-hand + pending
\* PO is >= 0.
C16_EntriesNonNegative ==
    (Applied /\ call.fn = "buildMaterialMasterMap") =>
        \A i \in 1..Len(result.value) :
            /\ result.value[i].v.mpq >= 0
            /\ result.value[i].v.moq >= 0
            /\ result.value[i].v.reorder >= 0
            /\ result.value[i].v.instock >= 0
            /\ result.value[i].v.pendingPo >= 0
            /\ ExcessOf(result.value[i].v) >= 0

----------------------------------------------------------------------------
(* Claims about the netting order (SpecOrder) *)

\* the periods a material has demand in, in the left-to-right order of the
\* plan's period columns, each with its demand
InHeaderOrder(entries, periods) ==
    LET has(w) == MapHas(entries, w)
        ws == SelectSeq(periods, has)
    IN [i \in 1..Len(ws) |-> [k |-> ws[i], v |-> MapGet(entries, ws[i], 0)]]

\* the walk of one material taken over its periods in header order
HeaderOrderWalk(material) ==
    LET mm == MapGet(buildMaterialMasterMap(inputs.materialMaster.jsonData[1],
                                            Tail(inputs.materialMaster.jsonData)),
                     material, MmDefault)
        sd == MapGet(buildSupplierDetailsMap(inputs.supplierDetails.jsonData[1],
                                             Tail(inputs.supplierDetails.jsonData)),
                     material, SdDefault)
    IN WalkFold(InHeaderOrder(MapGet(productionDemandMap, material, <<>>), weekColumns),
                WalkStart(mm), mm, sd, inputs.weekPlan, weekColumns)

\* C19: every material's periods are netted against its excess in the
\* left-to-right order of the plan's period columns: the periods of a row
\* are in that order and every period's MRP quantity is the one a walk in
\* that order gives.
C19_NettingInHeaderOrder ==
    Published =>
        \A i \in 1..Len(OutputRows) :
            LET row == OutputRows[i]
                walk == HeaderOrderWalk(row.material)
            IN /\ MapKeys(row.weeklyDemand) = MapKeys(walk.weeklyDemand)
               /\ \A j \in 1..Len(walk.weeklyMrpQty) :
                      MapGet(row.weeklyMrpQty, walk.weeklyMrpQty[j].k, 0)
                          = walk.weeklyMrpQty[j].v

\* the place of a cell of the plan, rows first: row r, period column c
PlanPlace(r, c) == r * (Len(inputs.idp.jsonData[1]) + 1) + c

\* the places whose production reaches the material in the period
FeedsOf(material, period) ==
    LET idpHeaders == inputs.idp.jsonData[1]
        idpRows == Tail(inputs.idp.jsonData)
        bomRows == Tail(inputs.bom.jsonData)
    IN { PlanPlace(r, c) : <<r, c>> \in
           { rc \in (1..Len(idpRows)) \X (2..Len(idpHeaders)) :
               /\ Trim(StringOf(idpHeaders[rc[2]])) = period
               /\ toNumber(idpRows[rc[1]][rc[2]]) > 0
               /\ \E b \in 1..Len(bomRows) :
                      /\ Trim(StringOf(bomRows[b][1])) = Trim(StringOf(idpRows[rc[1]][1]))
                      /\ Trim(StringOf(bomRows[b][2])) = material
                      /\ toNumber(bomRows[b][3]) > 0 } }

FirstFeed(material, period) ==
    CHOOSE p \in FeedsOf(material, period) : \A q \in FeedsOf(material, period) : p <= q

\* what holds instead: a material's periods are netted in the order in which
\* the plan, read row by row and left to right within a row, first produces
\* a parent of the material in them
C19_NettingInFirstFeedOrder ==
    Published =>
        \A i \in 1..Len(OutputRows) :
            LET keys == MapKeys(OutputRows[i].weeklyDemand) IN
            \A j \in 1..Len(keys), k \in 1..Len(keys) :
                j < k => /\ FeedsOf(OutputRows[i].material, keys[j]) # {}
                         /\ FeedsOf(OutputRows[i].material, keys[k]) # {}
                         /\ FirstFeed(OutputRows[i].material, keys[j])
                                < FirstFeed(OutputRows[i].material, keys[k])

----------------------------------------------------------------------------
(* Claims about the page (SpecPage) *)

\* the run that finished last loaded documents with which the computation
\* cannot go on: a document it needs is absent or empty, or the BOM has no
\* child-part column
FatalLoad ==
    \/ ~HasData(inputs.bom)
    \/ ~HasData(inputs.idp)
    \/ ~HasData(inputs.materialMaster)
    \/ ~HasData(inputs.supplierDetails)
    \/ ChildPartColumn(inputs.bom.jsonData[findHeaderRowIndex(inputs.bom.jsonData) + 1]) = -1

\* C12: when the run that finished last had a fatal error (BOM, plan,
\* material master or supplier details absent or empty, or no child-part
\* column), the published result is null, never a partial or stale list.
C12_FatalErrorPublishesNull ==
    (finished # NoRun /\ FatalLoad) => mrpCalculatedData = Null

\* what holds instead: a run with a fatal error publishes nothing itself, it
\* leaves the result as it finds it
C12_FatalRunPublishesNothing ==
    [][(finished' # finished /\ finished'.alert # "Calculation Complete") =>
            mrpCalculatedData' = mrpCalculatedData]_vars

\* C17: a run that loads BOM, plan, material master and supplier details
\* but no week plan still produces the MrpRow list.
C17_WeekPlanIsOptional ==
    (finished # NoRun /\ ~FatalLoad /\ ~HasData(inputs.weekPlan)) =>
        /\ finished.alert = "Calculation Complete"
        /\ (pending = <<>> /\ started = 1) => ~mrpCalculatedData.isNull

\* what holds instead: without a week plan no run computes anything
C17_WeekPlanIsRequired ==
    (finished # NoRun /\ ~HasData(inputs.weekPlan)) =>
        /\ finished.alert = "Data Load Failed"
        /\ (pending = <<>> /\ started = 1) => mrpCalculatedData = Null

\* C18: the stored weeks are integers in [1, 53] whatever is typed, every
\* run that starts has a window with startWeek <= endWeek, and a request
\* made on an invalid range or a blank or non-numeric week starts nothing.
C18_WindowValidity ==
    /\ [](/\ startWeek \in 1..53
          /\ endWeek \in 1..53
          /\ \A i \in 1..Len(pending) :
                 /\ pending[i].startWeek \in 1..53
                 /\ pending[i].endWeek \in 1..53
                 /\ pending[i].startWeek <= pending[i].endWeek)
    /\ [][(requests' # requests /\ ~weekValidation.isValid) =>
              UNCHANGED <<started, pending, isLoading, mrpCalculatedData, inputs>>]_vars

\* a run started on the window 7..20, then 60 typed into the start week is
\* stored as 53 and a second request, on 53 > 20, is rejected
C18_Witness ==
    /\ requests = 2
    /\ started = 1
    /\ Len(pending) = 1
    /\ pending[1].startWeek = 7
    /\ pending[1].endWeek = 20
    /\ startWeek = 53
    /\ startWeekText = <<"6","0">>
    /\ ~weekValidation.isValid

----------------------------------------------------------------------------
(* Claims about sheet selection (SpecSheet) *)

\* the scores of the sheets of the model, evaluated once
SheetScores ==
    [type \in SheetTypes, sh \in WorkbookSheets |->
        scoreSheetByType(type, sh.name, sh.aoa)]

\* the positions of the sheets workbook.Sheets holds
ReadableSheets == {i \in 1..Len(call.workbook) : call.workbook[i].readable}

ScoreAt(i) == SheetScores[call.type, call.workbook[i]]

\* C21: the selected sheet has the maximum score of the workbook's sheets,
\* it is the first of the sheets with that score in sheet order, and the
\* grid returned is its grid.
C21_SheetSelection ==
    (Applied /\ call.fn = "parseExcelArrayBuffer" /\ ReadableSheets # {}) =>
        \E i \in ReadableSheets :
            /\ result.value.sheetName = call.workbook[i].name
            /\ result.value.jsonData = call.workbook[i].aoa
            /\ \A j \in ReadableSheets : ScoreAt(j) <= ScoreAt(i)
            /\ \A j \in ReadableSheets : ScoreAt(j) = ScoreAt(i) => i <= j

\* Sheet1 and Sheet2 score 7 as BOM and follow a sheet that scores less:
\* Sheet1, the first of the two, is selected
C21_Witness ==
    /\ Applied
    /\ call.fn = "parseExcelArrayBuffer"
    /\ call.type = "bom"
    /\ Len(call.workbook) = 3
    /\ call.workbook[1].name = <<"D","a","t","a">>
    /\ call.workbook[2].name = T_Sheet1
    /\ call.workbook[3].name = <<"S","h","e","e","t","2">>
    /\ ScoreAt(2) = 7
    /\ ScoreAt(3) = 7
    /\ result.value = Doc(T_Sheet1, BomGrid(T_B))

\* the result that stands for "no usable sheet": the first sheet's name
\* (Sheet1 for a workbook without sheets) and an empty grid
NoUsableSheet ==
    Doc(IF call.workbook = <<>> THEN T_Sheet1 ELSE call.workbook[1].name, <<>>)

FirstReadable == CHOOSE i \in ReadableSheets : \A j \in ReadableSheets : i <= j

----------------------------------------------------------------------------
(* Claims about header and column resolution (SpecHeaderRow, SpecColumn) *)

\* row i (0-based) has a cell that contains "child" and a cell that contains
\* "derived" once normalised
Qualifies(i) ==
    /\ \E j \in 1..Len(call.rows[i + 1]) :
           Includes(normalizeHeaderValue(call.rows[i + 1][j]), T_child)
    /\ \E j \in 1..Len(call.rows[i + 1]) :
           Includes(normalizeHeaderValue(call.rows[i + 1][j]), T_derived)

ScannedIndexes ==
    {i \in 0..(Len(call.rows) - 1) : i < 10 /\ Qualifies(i)}

\* C23: the header row index is the smallest qualifying index below
\* min(10, number of rows), 0 when there is none; an index of 10 or more is
\* never returned.
C23_HeaderRowDetection ==
    (Applied /\ call.fn = "findHeaderRowIndex") =>
        /\ result.value \in 0..9
        /\ ScannedIndexes # {} =>
               /\ result.value \in ScannedIndexes
               /\ \A i \in ScannedIndexes : result.value <= i
        /\ ScannedIndexes = {} => result.value = 0

\* ten rows without the two words, then the header at index 10: it is not
\* chosen, the index is 0
C23_Witness ==
    /\ Applied
    /\ call.fn = "findHeaderRowIndex"
    /\ Len(call.rows) = 11
    /\ Qualifies(10)
    /\ \A i \in 0..9 : ~Qualifies(i)
    /\ result.value = 0

\* the child-part matchers by priority, 1 the highest
MatcherHolds(k, h) ==
    CASE k = 1 -> Includes(h, T_child_part)
      [] k = 2 -> h = T_child
      [] k = 3 -> h = T_childpart
      [] k = 4 -> Includes(h, T_childpart)
      [] k = 5 -> Includes(h, T_component)
      [] OTHER -> Includes(h, T_comp_part)

\* the columns (0-based) whose normalised, non-blank text satisfies matcher k
ColumnsOf(k) ==
    {i - 1 : i \in {j \in 1..Len(call.headers) :
        /\ normalizeHeaderValue(call.headers[j]) # <<>>
        /\ MatcherHolds(k, normalizeHeaderValue(call.headers[j]))}}

Leftmost(S) == CHOOSE i \in S : \A j \in S : i <= j

\* C24: the child-part column is the leftmost column that satisfies the
\* highest-priority matcher any column satisfies; -1 when no column
\* satisfies any.
C24_MatcherPriority ==
    (Applied /\ call.fn = "findColumnIndex") =>
        LET used == {k \in 1..6 : ColumnsOf(k) # {}} IN
        IF used = {} THEN result.value = -1
        ELSE result.value = Leftmost(ColumnsOf(Leftmost(used)))

\* what holds instead: the column is the leftmost one that satisfies any of
\* the matchers, whatever their order
C24_LeftmostOfAnyMatcher ==
    (Applied /\ call.fn = "findColumnIndex") =>
        LET hits == UNION {ColumnsOf(k) : k \in 1..6} IN
        IF hits = {} THEN result.value = -1
        ELSE result.value = Leftmost(hits)

----------------------------------------------------------------------------
(* Claims about the order of the rows (SpecSupplier, SpecMaterialMaster,
   SpecExplode) *)

\* the permutations of 1..n
RowOrders(n) == {f \in [1..n -> 1..n] : \A i \in 1..n, j \in 1..n : f[i] = f[j] => i = j}

Permuted(rows, f) == [i \in 1..Len(rows) |-> rows[f[i]]]

\* two maps hold the same entries, in whatever order
SameLookup(m1, m2) ==
    /\ SetOfSeq(MapKeys(m1)) = SetOfSeq(MapKeys(m2))
    /\ \A i \in 1..Len(m1) : \A j \in 1..Len(m2) : m1[i].k = m2[j].k => m1[i].v = m2[j].v

\* C25: the material-master and the supplier lookup are the same for every
\* permutation of the data rows, rows with a repeated material included.
C25_LookupsOrderIndependent ==
    Applied =>
        /\ call.fn = "buildSupplierDetailsMap" =>
               \A f \in RowOrders(Len(call.rows)) :
                   SameLookup(buildSupplierDetailsMap(call.headers, Permuted(call.rows, f)),
                              result.value)
        /\ call.fn = "buildMaterialMasterMap" =>
               \A f \in RowOrders(Len(call.rows)) :
                   SameLookup(buildMaterialMasterMap(call.headers, Permuted(call.rows, f)),
                              result.value)

\* what holds of the lookups: each material has one entry whatever the order
\* of the rows
C25_LookupKeysOrderIndependent ==
    Applied =>
        /\ call.fn = "buildSupplierDetailsMap" =>
               \A f \in RowOrders(Len(call.rows)) :
                   SetOfSeq(MapKeys(buildSupplierDetailsMap(call.headers,
                                                            Permuted(call.rows, f))))
                       = SetOfSeq(MapKeys(result.value))
        /\ call.fn = "buildMaterialMasterMap" =>
               \A f \in RowOrders(Len(call.rows)) :
                   SetOfSeq(MapKeys(buildMaterialMasterMap(call.headers,
                                                           Permuted(call.rows, f))))
                       = SetOfSeq(MapKeys(result.value))

\* two demand maps hold the same demand per (child, period)
SameDemand(d1, d2) ==
    /\ SetOfSeq(MapKeys(d1)) = SetOfSeq(MapKeys(d2))
    /\ \A i \in 1..Len(d1) : \A j \in 1..Len(d2) :
           d1[i].k = d2[j].k => SameLookup(d1[i].v, d2[j].v)

\* what holds of the explosion: the demand per (child, period) is the same
\* for every permutation of the BOM's data rows
C25_DemandOrderIndependent ==
    Published =>
        \A f \in RowOrders(Len(BomDataBelowHeader)) :
            SameDemand(buildProductionDemandMap(IdpHeaderCells, IdpDataBelowHeader,
                                                BomHeaderCells,
                                                Permuted(BomDataBelowHeader, f),
                                                weekColumns),
                       productionDemandMap)

----------------------------------------------------------------------------
(* Claims about the child column and the per-period maps (SpecExplode) *)

\* the child column the explosion reads
ExplosionChildColumn == ExplodeColumns(IdpHeaderCells, BomHeaderCells).bomChildPartIdx

\* material m is the listed child of a BOM row with a positive quantity
\* whose parent has positive production in a selected period
FedInWindow(m, edges, plan, heads) ==
    \E e \in 1..Len(edges), r \in 1..Len(plan), k \in 1..Len(heads) :
        /\ edges[e].listed = m
        /\ edges[e].parent # <<>>
        /\ edges[e].quantity > 0
        /\ plan[r].parent = edges[e].parent
        /\ SeqHas(weekColumns, heads[k])
        /\ plan[r].produced[k] > 0

HasDemand(row) ==
    /\ row.totalDemand > 0
    /\ \E i \in 1..Len(row.weeklyDemand) : row.weeklyDemand[i].v > 0

DemandWhereFed(edges, plan, heads) ==
    \A i \in 1..Len(OutputRows) :
        FedInWindow(OutputRows[i].material, edges, plan, heads) => HasDemand(OutputRows[i])

\* C28: whenever the computation publishes (the child column resolved), the
\* output's materials and the explosion's BOM edges are read from the same
\* column, and every listed material fed by positive production in a
\* selected period has non-zero weeklyDemand and totalDemand.
C28_ChildColumnConsistency ==
    Published =>
        /\ ExplosionChildColumn = ChildPartColumn(BomHeaderCells)
        /\ DemandWhereFed(Edges, Plan, PlanHeaderTexts)

\* what holds instead: the fed materials have demand whenever the two
\* columns coincide
C28_DemandWhereColumnsCoincide ==
    (Published /\ ExplosionChildColumn = ChildPartColumn(BomHeaderCells)) =>
        DemandWhereFed(Edges, Plan, PlanHeaderTexts)

\* the sum of the values of a per-period map
RECURSIVE SumOfValues(_)
SumOfValues(map) == IF map = <<>> THEN 0 ELSE Head(map).v + SumOfValues(Tail(map))

\* C30: in every output row the three per-period maps have the same period
\* keys, every key is a selected period, every weeklyDemand value is > 0, and
\* totalDemand is the sum of the weeklyDemand values.
C30_PerPeriodMapsAgree ==
    Published =>
        \A i \in 1..Len(OutputRows) :
            LET row == OutputRows[i] IN
            /\ SetOfSeq(MapKeys(row.weeklyMrpQty)) = SetOfSeq(MapKeys(row.weeklyDemand))
            /\ SetOfSeq(MapKeys(row.weeklyPoDate)) = SetOfSeq(MapKeys(row.weeklyDemand))
            /\ Len(row.weeklyMrpQty) = Len(row.weeklyDemand)
            /\ Len(row.weeklyPoDate) = Len(row.weeklyDemand)
            /\ Cardinality(SetOfSeq(MapKeys(row.weeklyDemand))) = Len(row.weeklyDemand)
            /\ SetOfSeq(MapKeys(row.weeklyDemand)) \subseteq SetOfSeq(weekColumns)
            /\ \A j \in 1..Len(row.weeklyDemand) : row.weeklyDemand[j].v > 0
            /\ row.totalDemand = SumOfValues(row.weeklyDemand)

\* a row with demand in two selected periods whose parent is also produced
\* in a period outside the window: the row has the two periods only
C30_Witness ==
    /\ Published
    /\ \E i \in 1..Len(OutputRows) :
           /\ Len(OutputRows[i].weeklyDemand) = 2
           /\ Len(OutputRows[i].weeklyPoDate) = 2
           /\ OutputRows[i].totalDemand
                  = OutputRows[i].weeklyDemand[1].v + OutputRows[i].weeklyDemand[2].v
           /\ \E e \in SetOfSeq(Edges), r \in SetOfSeq(Plan), k \in 1..Len(PlanHeaderTexts) :
                  /\ e.exploded = OutputRows[i].material
                  /\ e.quantity > 0
                  /\ e.parent = r.parent
                  /\ IsPeriod(PlanHeaderTexts[k])
                  /\ ~SeqHas(weekColumns, PlanHeaderTexts[k])
                  /\ r.produced[k] > 0

----------------------------------------------------------------------------
(* Claims about the runs in flight (SpecPage, SpecLoad) *)

\* C29: at most one Calculate MRP run is in flight, isLoading = false means
\* that no run is in flight, and a published list comes from the run that
\* was started last.
C29_SingleRunInFlight ==
    /\ Len(pending) <= 1
    /\ ~isLoading => pending = <<>>
    /\ ~mrpCalculatedData.isNull => finished.id = started

\* what holds instead: while isLoading is true some run is in flight
C29_LoadingMeansARunInFlight ==
    isLoading => pending # <<>>

\* C26: the run resumes, to compute or to report the failure, only when
\* every one of its five loads has settled as success or error, and the
\* documents the computation reads are the results of those loads.
C26_FanInBarrier ==
    [][finished' # finished =>
          /\ \A s \in Sources : /\ loads[s].pc = "done"
                                /\ loads[s].status \in {"success", "error"}
          /\ alert' = "Calculation Complete" =>
                 /\ \A s \in Sources : loads[s].res.success
                 /\ inputs' = ResultDocuments]_vars

\* a run has computed on five settled loads
C26_Witness ==
    /\ finished # NoRun
    /\ finished.alert = "Calculation Complete"
    /\ \A s \in Sources : loads[s].status = "success"
    /\ inputs = ResultDocuments
    /\ ~mrpCalculatedData.isNull

====
